---------------------------- MODULE Spec2Model ----------------------------
(***************************************************************************)
(* Operational Consistency Verification Engine of the OCC / ILSC MRD       *)
(* suite: the verdict combiner (compute_final_verdict), the certificate    *)
(* validators with their auto-fill-or-verify hash audit (validate_pa,      *)
(* validate_rfs, validate_io), the PCN / PCD stability sweeps applied by  *)
(* run_case, the judge pipeline of occ/judges and run_bundle of            *)
(* occ/runner.py.                                                          *)
(***************************************************************************)
EXTENDS Integers, Sequences, FiniteSets, TLC

VARIABLES
    \* --- verdict combiner (scripts/run_mrd_*.py) ---
    locks,          \* the lock argument: [form, items], an ordered map or a list
    certificates,   \* the certificate argument: an ordered map name -> value
    cfv_fn,         \* which compute_final_verdict has run ("" before the call)
    cfv_out,        \* its return value (verdict, first_reason)
    \* --- certificate validators (judges/certificates.py) ---
    cert,           \* the certificate object, mutated in place by the validators
    cv,             \* CertVerdict.verdict of the last validation ("" before any)
    call,           \* arguments of the last validation (repo_root, data_obj, env)
    pre,            \* the hash slots as the last validation found them
    hist,           \* how the last validation relates to the one before it
    before,         \* the certificate as the last validation received it
    exc,            \* the exception the last validation let escape ("" = none)
    \* --- run_case and its stability sweeps (runner.py, checks/pcn_pcd.py) ---
    cfg,            \* the caller's configuration
    do_meta,        \* run_case's do_meta argument
    rc_pc,          \* where run_case is
    unswept,        \* the verdict before the sweeps ("" before it is computed)
    verdict,        \* run_case's verdict variable
    idx,            \* position of the running sweep loop
    pcn_loc,        \* pcn_sweep's locals: base_verdict, runs, flip, skipped
    pcn,            \* locks["PCN_stability"]
    pcd_loc,        \* pcd_sweep's locals: base, eps_list
    pcd,            \* locks["PCD_stability"]
    nested,         \* the nested evaluations run_once has made, in order
    judge_certs,    \* cfg["judge_certs"]: per kind, enabled and the certificate at path
    jc_out,         \* the judge_certs entry run_case appended to diagnostic
    \* --- occ/judges/pipeline.py ---
    results,        \* the judges' results, in judge order
    pipe_fn,        \* which entry point has run ("" = none yet)
    pipe_out,       \* what it returned: verdict and first_reason
    claim,          \* the claim handed to run_pipeline
    profile,        \* the arguments default_judges built the judge list from
    \* --- occ/runner.py: run_bundle ---
    outputs,        \* the *.report.json files of module_dir/outputs
    runner_script,  \* what the module's runner script does when executed
    out_dir,        \* whether run_bundle was given out_dir
    now,            \* the file system's clock
    rb_pc,          \* where run_bundle is
    rb_res          \* the RunResult returned: report_path and the report there

combineVars == <<locks, certificates, cfv_fn, cfv_out>>
certVars == <<cert, cv, call, pre, hist, before, exc>>
sweepVars == <<cfg, do_meta, rc_pc, unswept, verdict, idx, pcn_loc, pcn, pcd_loc, pcd, nested,
               judge_certs, jc_out>>
pipeVars == <<results, pipe_fn, pipe_out, claim, profile>>
bundleVars == <<outputs, runner_script, out_dir, now, rb_pc, rb_res>>
vars == <<combineVars, certVars, sweepVars, pipeVars, bundleVars>>

(***************************************************************************)
(* Bounds of the model.                                                    *)
(***************************************************************************)
MaxCerts == 2
MaxLocks == 2
NumTrees == 2     \* versions of the source tree under repo_root
NumVals == 2      \* values the context object can carry
NumEnvs == 2      \* platform / library environments
MaxRefs == 3      \* length of numerics.pcn.refinements
MaxJudges == 3    \* judges in a pipeline

(***************************************************************************)
(* Python helpers.                                                         *)
(***************************************************************************)
\* str.startswith
StartsWith(s, p) == Len(s) >= Len(p) /\ SubSeq(s, 1, Len(p)) = p

\* An ordered dict is a sequence of [key, val] pairs with distinct keys.
\* d[k] = v : an existing key keeps its position and takes the new value,
\* a new key is appended.
DictSet(d, k, v) ==
    IF \E i \in 1..Len(d) : d[i].key = k
    THEN [i \in 1..Len(d) |-> IF d[i].key = k THEN [key |-> k, val |-> v] ELSE d[i]]
    ELSE Append(d, [key |-> k, val |-> v])

(***************************************************************************)
(* Input values of the combiner.                                           *)
(***************************************************************************)
\* Iteration order of the certificate map built by main(): RFS, IO (+ PA).
CertOrder == <<"RFS", "IO", "PA", "AUX">>

\* A certificate entry: a record with a string verdict, a record whose
\* 'verdict' is missing (v.get('verdict') is None), or not a record at all.
CertValues ==
    { [isdict |-> TRUE, hasverdict |-> TRUE, verdict |-> t] :
        t \in {"NO-EVAL(RFS5)", "FAIL(X)", "PASS(RFS)", "SKIP"} }
    \cup { [isdict |-> TRUE,  hasverdict |-> FALSE, verdict |-> ""],
           [isdict |-> FALSE, hasverdict |-> FALSE, verdict |-> ""] }

CertMaps ==
    UNION { { [i \in 1..n |-> [key |-> CertOrder[i], val |-> f[i]]] :
                f \in [1..n -> CertValues] } : n \in 0..MaxCerts }

\* A lock entry.  id / name are the keys the list normalisation reads
\* ("" = key absent); haspass = FALSE models a record without 'pass';
\* hasverdict = FALSE one without 'verdict'.
LockRec(id, name, haspass, pass, hasverdict, tag) ==
    [isdict |-> TRUE, id |-> id, name |-> name, haspass |-> haspass,
     pass |-> pass, hasverdict |-> hasverdict, verdict |-> tag]

NonDict ==
    [isdict |-> FALSE, id |-> "", name |-> "", haspass |-> FALSE,
     pass |-> FALSE, hasverdict |-> FALSE, verdict |-> ""]

LockIds == <<"L1", "L2", "L3", "L4">>

\* Entries of a lock map (the key is held by the map, not by the entry).
MapLockValues ==
    { LockRec("", "", TRUE, TRUE, TRUE, "PASS") }
    \cup { LockRec("", "", hp, FALSE, TRUE, t) :
             hp \in BOOLEAN, t \in {"NO-EVAL(L2)", "FAIL(L2)"} }
    \cup { LockRec("", "", hp, FALSE, FALSE, "") : hp \in BOOLEAN }
    \cup { NonDict }

LockMaps ==
    UNION { { [i \in 1..n |-> [key |-> LockIds[i], val |-> f[i]]] :
                f \in [1..n -> MapLockValues] } : n \in 0..MaxLocks }

\* Items of a lock list, as main() builds it when the dataset is missing:
\* {"id": "G03", "verdict": "NO-EVAL", ...}; ids may repeat or be absent.
ListLockValues ==
    { LockRec(k[1], k[2], b[1], b[2], b[3], b[4]) :
        k \in {<<"L1", "">>, <<"", "L1">>, <<"", "">>},
        b \in {<<TRUE, TRUE, TRUE, "PASS">>,
               <<TRUE, FALSE, TRUE, "FAIL(G01)">>,
               <<FALSE, FALSE, TRUE, "NO-EVAL">>} }
    \cup { NonDict }

LockLists ==
    UNION { [1..n -> ListLockValues] : n \in 0..MaxLocks }

LockInputs ==
    { [form |-> "dict", items |-> m] : m \in LockMaps }
    \cup { [form |-> "list", items |-> l] : l \in LockLists }
    \cup { [form |-> "none", items |-> <<>>] }

(***************************************************************************)
(* compute_final_verdict                                                   *)
(***************************************************************************)
NoResult == [verdict |-> "", first_reason |-> ""]

\* key = item.get('id') or item.get('lock') or item.get('name') or 'LOCK'
ListKey(item) ==
    IF item.id # "" THEN item.id
    ELSE IF item.name # "" THEN item.name
    ELSE "LOCK"

RECURSIVE NormalizeList(_, _, _)
NormalizeList(items, i, tmp) ==
    IF i > Len(items) THEN tmp
    ELSE IF items[i].isdict
         THEN NormalizeList(items, i + 1, DictSet(tmp, ListKey(items[i]), items[i]))
         ELSE NormalizeList(items, i + 1, tmp)

\* Normalize locks: allow dict OR list[dict] (or None)
NormalizeLocks(l) ==
    IF l.form = "list" THEN NormalizeList(l.items, 1, <<>>)
    ELSE IF l.form = "none" THEN <<>>
    ELSE l.items

\* (mutation of CertGate: only a NO-EVAL certificate gates, a FAIL one is
\* left to the locks)
RECURSIVE CertGateNoEvalOnly(_, _)
CertGateNoEvalOnly(certs, i) ==
    IF i > Len(certs) THEN NoResult
    ELSE LET k == certs[i].key
             v == certs[i].val
             reason == "CERTS_" \o k
         IN IF v.isdict /\ v.hasverdict /\ StartsWith(v.verdict, "NO-EVAL")
            THEN [verdict |-> "NO-EVAL(" \o reason \o ")", first_reason |-> reason]
            ELSE CertGateNoEvalOnly(certs, i + 1)

\* Certificates gate: the first entry, in iteration order, whose verdict
\* starts with NO-EVAL or FAIL returns at once.
RECURSIVE CertGate(_, _)
CertGate(certs, i) ==
    IF i > Len(certs) THEN NoResult
    ELSE LET k == certs[i].key
             v == certs[i].val
             reason == "CERTS_" \o k
         IN IF ~v.isdict THEN CertGate(certs, i + 1)
            ELSE IF v.hasverdict
                    /\ (StartsWith(v.verdict, "NO-EVAL") \/ StartsWith(v.verdict, "FAIL"))
                 THEN IF StartsWith(v.verdict, "NO-EVAL")
                      THEN [verdict |-> "NO-EVAL(" \o reason \o ")", first_reason |-> reason]
                      ELSE [verdict |-> "FAIL(" \o reason \o ")", first_reason |-> reason]
                 ELSE CertGate(certs, i + 1)

\* v.get('pass', False)
GetPass(v) == IF v.haspass THEN v.pass ELSE FALSE

\* v.get('verdict', 'FAIL')
GetLockVerdict(v) == IF v.hasverdict THEN v.verdict ELSE "FAIL"

\* (mutation of LockScan: the scan keeps going and the last failing lock wins)
RECURSIVE LockScanLast(_, _)
LockScanLast(lks, i) ==
    IF i > Len(lks) THEN [verdict |-> "PASS", first_reason |-> ""]
    ELSE LET k == lks[i].key
             v == lks[i].val
             rest == LockScanLast(lks, i + 1)
         IN IF v.isdict /\ ~GetPass(v) /\ rest.verdict = "PASS"
            THEN IF StartsWith(GetLockVerdict(v), "NO-EVAL")
                 THEN [verdict |-> "NO-EVAL(" \o k \o ")", first_reason |-> k]
                 ELSE [verdict |-> "FAIL(" \o k \o ")", first_reason |-> k]
            ELSE rest

\* Locks: the first record whose pass is not true returns at once.
RECURSIVE LockScan(_, _)
LockScan(lks, i) ==
    IF i > Len(lks) THEN [verdict |-> "PASS", first_reason |-> ""]
    ELSE LET k == lks[i].key
             v == lks[i].val
         IN IF v.isdict /\ ~GetPass(v)
            THEN IF StartsWith(GetLockVerdict(v), "NO-EVAL")
                 THEN [verdict |-> "NO-EVAL(" \o k \o ")", first_reason |-> k]
                 ELSE [verdict |-> "FAIL(" \o k \o ")", first_reason |-> k]
            ELSE LockScan(lks, i + 1)

Combine(lks, certs) ==
    LET g == CertGate(certs, 1)
    IN IF g # NoResult THEN g ELSE LockScan(lks, 1)

\* mrd_g0_dm/scripts/run_mrd_g0_dm.py
compute_final_verdict(l, certs) == Combine(NormalizeLocks(l), certs)

\* mrd_obs_isaac/scripts/run_mrd_obs_isaac.py: no normalisation; locks.items()
\* needs a dict.
compute_final_verdict_obs(l, certs) == Combine(l.items, certs)

(***************************************************************************)
(* audit.py: digests.  A digest is kept symbolic: sha256_bytes wraps the   *)
(* bytes it hashes, so two digests are equal exactly when the hashed bytes *)
(* are.                                                                    *)
(***************************************************************************)
sha256_bytes(b) == "h[" \o b \o "]"

Trees == 1..NumTrees
Envs == 1..NumEnvs
Vals == 1..NumVals

\* Context objects (data_obj): the one-entry mappings {"1": v}, the mapping
\* {1: 1} with an int key, and a mapping with an int and a str key,
\* {1: 1, "2": 1}, which json.dumps(sort_keys=True) cannot order (TypeError).
CtxObjects ==
    { [mixed |-> FALSE, keyIsInt |-> FALSE, val |-> v] : v \in Vals }
    \cup { [mixed |-> FALSE, keyIsInt |-> TRUE, val |-> 1],
           [mixed |-> TRUE, keyIsInt |-> TRUE, val |-> 1] }

\* json.dumps(obj, sort_keys=True, separators=(",",":")) raises on obj
JsonRaises(obj) == obj.mixed

\* json.dumps writes an int key as the string of its digits: {1: v} and
\* {"1": v} have the same text.
json_dumps(obj) == "{\"1\":" \o ToString(obj.val) \o "}"

sha256_json(obj) == sha256_bytes(json_dumps(obj))

\* tree_hash(root)["tree_sha256"]: the digest of the sorted manifest of
\* (relative path, file digest) pairs; t is the version of the files.
tree_sha256(t) == sha256_bytes("[[\"src/ilsc_mrd\",\"" \o ToString(t) \o "\"]]")

\* env_hash(): the digest of {"fingerprint": ..., "versions": ...}
env_hash(e) == sha256_bytes("{\"fingerprint\":" \o ToString(e) \o "}")

(***************************************************************************)
(* judges/certificates.py                                                  *)
(***************************************************************************)
_compute_code_hash(repo_root) == "sha256:" \o tree_sha256(repo_root)

_compute_data_hash(obj) == "sha256:" \o sha256_json(obj)

\* current.strip().upper(), on the spellings of the sentinel the model uses
StripUpper(s) == IF s \in {"AUTO", " auto "} THEN "AUTO" ELSE s

\* (mutation of _check_or_fill_hash: every value with the "sha256:" prefix
\* is taken for the placeholder and replaced)
CheckOrFillAnyPrefix(field, current, expected) ==
    IF current = "" \/ StripUpper(current) = "AUTO" \/ StartsWith(current, "sha256:")
    THEN [raised |-> FALSE, value |-> expected]
    ELSE IF current # expected
         THEN [raised |-> TRUE, value |-> current]
         ELSE [raised |-> FALSE, value |-> current]

\* (mutation of _check_or_fill_hash: a stored digest is compared with the
\* bare hex digest, without its "sha256:" prefix)
CheckOrFillNoPrefix(field, current, expected) ==
    IF current = "" \/ StripUpper(current) = "AUTO" \/ StartsWith(current, "sha256:...")
    THEN [raised |-> FALSE, value |-> expected]
    ELSE IF current # SubSeq(expected, 8, Len(expected))
         THEN [raised |-> TRUE, value |-> current]
         ELSE [raised |-> FALSE, value |-> current]

\* (mutation of _check_or_fill_hash: the slot is always overwritten with the
\* expected digest, a stored digest is never compared)
CheckOrFillOverwrite(field, current, expected) ==
    [raised |-> FALSE, value |-> expected]

\* If current is AUTO or placeholder, replace.  Otherwise compare; a
\* mismatch raises ValueError.
_check_or_fill_hash(field, current, expected) ==
    IF current = "" \/ StripUpper(current) = "AUTO" \/ StartsWith(current, "sha256:...")
    THEN [raised |-> FALSE, value |-> expected]
    ELSE IF current # expected
         THEN [raised |-> TRUE, value |-> current]
         ELSE [raised |-> FALSE, value |-> current]

\* (mutation of _ensure_runlog: run_log is left as it is)
EnsureRunlogNoStamp(c) == c

\* rl.setdefault("validated_at_utc", now_utc_iso())
_ensure_runlog(c) == [c EXCEPT !.run_log_stamped = TRUE]

Max(S) == CHOOSE x \in S : \A y \in S : y <= x
SeqRange(q) == { q[i] : i \in 1..Len(q) }

\* What a validator call leaves behind: the certificate (mutated in place)
\* and either the CertVerdict it returns or the exception it lets escape.
Out(c, v) == [cert |-> c, verdict |-> v, raised |-> ""]
Raise(c, e) == [cert |-> c, verdict |-> "", raised |-> e]

\* (mutation of _missing: the required-field check is dropped)
MissingNone(c) == <<>>

\* _missing(cert, required): the required keys that are not in cert
_missing(c) == IF c.complete THEN <<>> ELSE <<"cert_version">>

\* x.get(...) / x.setdefault(...) on the value of a field: AttributeError
\* when the value is a non-empty string, not a mapping.
NotMapping(c, field) == c.shape[field] # "ok"

\* (mutation of SweepBlocks: the enabled flag is not consulted)
SweepBlocksWhenDisabled(enabled, flips) == flips

\* sweep.get("enabled", False) and sweep.get("flips", False)
SweepBlocks(enabled, flips) == enabled /\ flips

\* (mutation of Dominates: equality does not count as dominance)
DominatesStrict(deltas, kappa, sigma) == Max(SeqRange(deltas)) > kappa * sigma

\* max(deltas) >= kappa * sigma
Dominates(deltas, kappa, sigma) == Max(SeqRange(deltas)) >= kappa * sigma

\* (mutation of validate_pa: the dominance check runs before the hash audit)
ValidatePaSemanticFirst(c, repo_root, data_obj) ==
    IF _missing(c) # <<>> THEN Out(c, "NO-EVAL(PA1)")
    ELSE IF c.cert_type # "PA-CERT" THEN Out(c, "NO-EVAL(PA1)")
    ELSE IF NotMapping(c, "run_log") THEN Raise(c, "AttributeError")
    ELSE
      LET c1 == _ensure_runlog(c)
      IN IF ~c1.pa.numeric \/ Len(c1.pa.deltas) = 0 THEN Out(c1, "NO-EVAL(PA2)")
         ELSE IF Dominates(c1.pa.deltas, c1.pa.kappa, c1.pa.sigma)
         THEN Out(c1, "NO-EVAL(PA3)")
         ELSE IF JsonRaises(data_obj) \/ NotMapping(c1, "hashes")
         THEN Out(c1, "NO-EVAL(PA5)")
         ELSE
           LET rc == _check_or_fill_hash("hashes.code", c1.hashes.code,
                                         _compute_code_hash(repo_root))
               c2 == [c1 EXCEPT !.hashes.code = rc.value]
               rd == _check_or_fill_hash("hashes.data", c2.hashes.data,
                                         _compute_data_hash(data_obj))
               c3 == [c2 EXCEPT !.hashes.data = rd.value]
           IN IF rc.raised THEN Out(c1, "NO-EVAL(PA5)")
              ELSE IF rd.raised THEN Out(c2, "NO-EVAL(PA5)")
              ELSE Out(c3, "PASS(PA)")

validate_pa(c, repo_root, data_obj) ==
    IF _missing(c) # <<>> THEN Out(c, "NO-EVAL(PA1)")
    ELSE IF c.cert_type # "PA-CERT" THEN Out(c, "NO-EVAL(PA1)")
    \* _ensure_runlog(cert) is outside every try
    ELSE IF NotMapping(c, "run_log") THEN Raise(c, "AttributeError")
    ELSE
      LET c1 == _ensure_runlog(c)
      IN  \* PA5: hashes (code/data); any exception of the audit is caught
          IF JsonRaises(data_obj) \/ NotMapping(c1, "hashes")
          THEN Out(c1, "NO-EVAL(PA5)")
          ELSE
            LET rc == _check_or_fill_hash("hashes.code", c1.hashes.code,
                                          _compute_code_hash(repo_root))
            IN IF rc.raised THEN Out(c1, "NO-EVAL(PA5)")
               ELSE
                 LET c2 == [c1 EXCEPT !.hashes.code = rc.value]
                     rd == _check_or_fill_hash("hashes.data", c2.hashes.data,
                                               _compute_data_hash(data_obj))
                 IN IF rd.raised THEN Out(c2, "NO-EVAL(PA5)")
                    ELSE
                      LET c3 == [c2 EXCEPT !.hashes.data = rd.value]
                      IN  \* PA3: dominance check; PA2: bound not usable
                          IF ~c3.pa.numeric \/ Len(c3.pa.deltas) = 0
                          THEN Out(c3, "NO-EVAL(PA2)")
                          ELSE IF Dominates(c3.pa.deltas, c3.pa.kappa, c3.pa.sigma)
                               THEN Out(c3, "NO-EVAL(PA3)")
                               ELSE Out(c3, "PASS(PA)")

\* (mutation of validate_io: a value equal to the threshold is rejected too)
ValidateIoAtMost(c) ==
    IF _missing(c) # <<>> THEN Out(c, "NO-EVAL(IO1)")
    ELSE IF c.cert_type # "IO-CERT" THEN Out(c, "NO-EVAL(IO1)")
    ELSE IF ~c.io.numeric THEN Out(c, "NO-EVAL(IO1)")
    ELSE IF c.io.value <= c.io.tau THEN Out(c, "NO-EVAL(IO3)")
    ELSE Out(c, "PASS(IO)")

validate_io(c) ==
    IF _missing(c) # <<>> THEN Out(c, "NO-EVAL(IO1)")
    ELSE IF c.cert_type # "IO-CERT" THEN Out(c, "NO-EVAL(IO1)")
    ELSE IF ~c.io.numeric THEN Out(c, "NO-EVAL(IO1)")
    ELSE IF c.io.value < c.io.tau THEN Out(c, "NO-EVAL(IO3)")
    ELSE Out(c, "PASS(IO)")

validate_rfs(c, repo_root, data_obj, env) ==
    IF _missing(c) # <<>> THEN Out(c, "NO-EVAL(RFS1)")
    ELSE IF c.cert_type # "RFS-CERT" THEN Out(c, "NO-EVAL(RFS1)")
    ELSE
      \* RFS5: end-to-end audit hashes (code/data/env)
      IF JsonRaises(data_obj) \/ NotMapping(c, "hashes")
      THEN Out(c, "NO-EVAL(RFS5)")
      ELSE
        LET rc == _check_or_fill_hash("audit_hashes.code", c.hashes.code,
                                      _compute_code_hash(repo_root))
        IN IF rc.raised THEN Out(c, "NO-EVAL(RFS5)")
           ELSE
             LET c2 == [c EXCEPT !.hashes.code = rc.value]
                 rd == _check_or_fill_hash("audit_hashes.data", c2.hashes.data,
                                           _compute_data_hash(data_obj))
             IN IF rd.raised THEN Out(c2, "NO-EVAL(RFS5)")
                ELSE
                  LET c3 == [c2 EXCEPT !.hashes.data = rd.value]
                      re == _check_or_fill_hash("audit_hashes.env", c3.hashes.env,
                                                "sha256:" \o env_hash(env))
                  IN IF re.raised THEN Out(c3, "NO-EVAL(RFS5)")
                     ELSE
                       LET c4 == [c3 EXCEPT !.hashes.env = re.value]
                       IN \* the sweep lookups are outside every try
                          IF NotMapping(c4, "pcn_sweep")
                          THEN Raise(c4, "AttributeError")
                          ELSE IF SweepBlocks(c4.rfs.pcn_enabled, c4.rfs.pcn_flips)
                          THEN Out(c4, "NO-EVAL(RFS2)")
                          ELSE IF NotMapping(c4, "pcd_sweep")
                          THEN Raise(c4, "AttributeError")
                          ELSE IF SweepBlocks(c4.rfs.pcd_enabled, c4.rfs.pcd_flips)
                          THEN Out(c4, "NO-EVAL(RFS3)")
                          ELSE Out(c4, "PASS(RFS)")

(***************************************************************************)
(* Certificates as loaded by load_cert.                                    *)
(***************************************************************************)
PADefault == [numeric |-> TRUE, deltas |-> <<1>>, kappa |-> 2, sigma |-> 1]
IODefault == [numeric |-> TRUE, value |-> 9, tau |-> 5]
RFSDefault == [pcn_enabled |-> FALSE, pcn_flips |-> FALSE,
               pcd_enabled |-> FALSE, pcd_flips |-> FALSE]

\* delta_proj.delta, kappa_rule.kappa, sigma_data.sigma
PAValues ==
    { [numeric |-> TRUE, deltas |-> <<1>>, kappa |-> 2, sigma |-> 1],
      [numeric |-> TRUE, deltas |-> <<1, 2>>, kappa |-> 2, sigma |-> 1],
      \* delta = [0.1, 0.2], kappa = 2.0, sigma = 0.05, in hundredths
      [numeric |-> TRUE, deltas |-> <<10, 20>>, kappa |-> 2, sigma |-> 5],
      [numeric |-> TRUE, deltas |-> <<3, 1>>, kappa |-> 2, sigma |-> 2],
      [numeric |-> TRUE, deltas |-> <<>>, kappa |-> 2, sigma |-> 1],
      [numeric |-> FALSE, deltas |-> <<1>>, kappa |-> 2, sigma |-> 1] }

\* identifiability_metric.value, threshold_tau
IOValues ==
    { [numeric |-> TRUE, value |-> 9, tau |-> 5],
      [numeric |-> TRUE, value |-> 5, tau |-> 5],
      [numeric |-> TRUE, value |-> 4, tau |-> 5],
      [numeric |-> FALSE, value |-> 9, tau |-> 5] }

\* pcn_sweep / pcd_sweep: (enabled, flips)
RFSValues ==
    { [pcn_enabled |-> a[1], pcn_flips |-> a[2],
       pcd_enabled |-> b[1], pcd_flips |-> b[2]] :
        <<a, b>> \in { <<<<TRUE, FALSE>>, <<TRUE, FALSE>>>>,
                       <<<<TRUE, TRUE>>,  <<TRUE, FALSE>>>>,
                       <<<<TRUE, FALSE>>, <<TRUE, TRUE>>>>,
                       <<<<TRUE, TRUE>>,  <<TRUE, TRUE>>>>,
                       <<<<FALSE, TRUE>>, <<FALSE, TRUE>>>>,
                       <<<<FALSE, TRUE>>, <<TRUE, TRUE>>>>,
                       <<<<TRUE, TRUE>>,  <<FALSE, TRUE>>>> } }

\* The required-field and type-tag gate: passed, a required field absent, or
\* the cert_type of another kind.
Gates(kind) ==
    { [complete |-> TRUE,  cert_type |-> kind \o "-CERT"],
      [complete |-> FALSE, cert_type |-> kind \o "-CERT"],
      [complete |-> TRUE,  cert_type |-> IF kind = "IO" THEN "PA-CERT" ELSE "IO-CERT"] }

NoHashes == [code |-> "", data |-> "", env |-> ""]

\* Hash slots of a certificate file: every slot "AUTO" or the digest an
\* earlier validation computed (of version 1 of the tree, the context and
\* the environment; stale when these have changed since), or all slots one
\* other spelling of "fill me".
SlotChoices(digest) == {"AUTO", digest}

CodeDigest == _compute_code_hash(1)
DataDigest == _compute_data_hash([mixed |-> FALSE, keyIsInt |-> FALSE, val |-> 1])
EnvDigest == "sha256:" \o env_hash(1)

InitHashes(kind) ==
    { [code |-> c, data |-> d, env |-> e] :
        c \in SlotChoices(CodeDigest), d \in SlotChoices(DataDigest),
        e \in IF kind = "RFS" THEN SlotChoices(EnvDigest) ELSE {""} }
    \cup { [code |-> a, data |-> a, env |-> IF kind = "RFS" THEN a ELSE ""] :
             a \in {"", " auto ", "sha256:..."} }

PassGate(kind) == [complete |-> TRUE, cert_type |-> kind \o "-CERT"]

\* The fields the validators use as mappings: "ok" is a mapping, "str" a
\* non-empty string in its place.
OkShape == [run_log |-> "ok", hashes |-> "ok", pcn_sweep |-> "ok", pcd_sweep |-> "ok"]

MkCert(kind, g, stamped, h, pa, io, rfs) ==
    [kind |-> kind, complete |-> g.complete, cert_type |-> g.cert_type,
     run_log_stamped |-> stamped, hashes |-> h, pa |-> pa, io |-> io, rfs |-> rfs,
     shape |-> OkShape]

\* Certificates with all required fields present, one of them malformed.
Malformed(kind, fields) ==
    { [MkCert(kind, PassGate(kind), FALSE,
              [code |-> "AUTO", data |-> "AUTO",
               env |-> IF kind = "RFS" THEN "AUTO" ELSE ""],
              PADefault, IODefault, x)
         EXCEPT !.shape[f] = "str"] :
        f \in fields,
        x \in IF kind = "RFS"
              THEN {RFSDefault, [RFSDefault EXCEPT !.pcn_enabled = TRUE, !.pcn_flips = TRUE]}
              ELSE {RFSDefault} }

\* Every slot AUTO, or every slot the digest of version 1.
PlainHashes(kind) ==
    { [code |-> "AUTO", data |-> "AUTO", env |-> IF kind = "RFS" THEN "AUTO" ELSE ""],
      [code |-> CodeDigest, data |-> DataDigest,
       env |-> IF kind = "RFS" THEN EnvDigest ELSE ""] }

\* Every combination of hash slots with the default semantic fields, and
\* every choice of semantic fields with plain hash slots.
InitCerts ==
    { MkCert("PA", PassGate("PA"), st, h, PADefault, IODefault, RFSDefault) :
        st \in BOOLEAN, h \in InitHashes("PA") }
    \cup { MkCert("PA", PassGate("PA"), FALSE, h, x, IODefault, RFSDefault) :
             h \in PlainHashes("PA"), x \in PAValues }
    \cup { MkCert("PA", g, FALSE, h, PADefault, IODefault, RFSDefault) :
             g \in Gates("PA") \ {PassGate("PA")}, h \in InitHashes("PA") }
    \cup { MkCert("RFS", PassGate("RFS"), FALSE, h, PADefault, IODefault, RFSDefault) :
             h \in InitHashes("RFS") }
    \cup { MkCert("RFS", PassGate("RFS"), FALSE, h, PADefault, IODefault, x) :
             h \in PlainHashes("RFS"), x \in RFSValues }
    \cup { MkCert("RFS", g, FALSE, h, PADefault, IODefault, RFSDefault) :
             g \in Gates("RFS") \ {PassGate("RFS")}, h \in InitHashes("RFS") }
    \cup { MkCert("IO", PassGate("IO"), FALSE, NoHashes, PADefault, x, RFSDefault) :
             x \in IOValues }
    \cup { MkCert("IO", g, FALSE, NoHashes, PADefault, IODefault, RFSDefault) :
             g \in Gates("IO") \ {PassGate("IO")} }
    \cup Malformed("PA", {"run_log", "hashes"})
    \cup Malformed("RFS", {"hashes", "pcn_sweep", "pcd_sweep"})

(***************************************************************************)
(* checks/pcn_pcd.py and runner.run_case                                   *)
(***************************************************************************)
_MAX_WORK == 50000000

\* (mutation of _work: the mirrored time axis is forgotten)
WorkUnmirrored(c) == c.n_time * c.n_omega

\* _work(cfg): causality uses mirrored time -> ~2 n_time
_work(c) == 2 * c.n_time * c.n_omega

\* (mutation of deepcopy: the sweep works on the caller's object itself)
CopyByReference(c) == [shared |-> TRUE, obj |-> c]

\* copy.deepcopy(cfg): a new object with the values of cfg; shared tells
\* whether a write to it is a write to the caller's object.
deepcopy(c) == [shared |-> FALSE, obj |-> c]

\* The caller's configuration after the sweep has written v into the copy.
CallerCfgAfterWrite(c, copy, v) == IF copy.shared THEN v ELSE c

\* cfg_r = deepcopy(cfg) with every grid's n set to int(max(10, n*r))
ScaleN(n, r) == IF n * r > 10 THEN n * r ELSE 10
RefinedCfg(c, r) ==
    [c EXCEPT !.n_omega = ScaleN(c.n_omega, r), !.n_time = ScaleN(c.n_time, r)]

\* The tolerance factors 0.1, 1.0, 10.0, in tenths.
PcdFactors == <<1, 10, 100>>

\* cfg2 = deepcopy(cfg) with eps_psd = base_eps * factor
TolerancedCfg(c, f10) == [c EXCEPT !.eps_psd = (c.eps_psd * f10) \div 10]

\* The locks run_case builds from the domain checks.  How the checks answer
\* is a fixed function of the configuration they are given: cfg.dom tells
\* which lock fails always, only on a fine grid (n >= 5000, as the grid
\* aliasing injection does), or only under a tight tolerance.
DomainLocks(c) ==
    << [key |-> "SK_causality",
        pass |-> ~(c.dom.causal = "fail"
                   \/ (c.dom.causal = "fail_when_refined" /\ c.n_time >= 5000)),
        severity |-> "FAIL"],
       [key |-> "SK_psd_noise",
        pass |-> ~(\/ c.dom.psd = "fail"
                   \/ (c.dom.psd = "fail_when_refined" /\ c.n_omega >= 5000)
                   \/ (c.dom.psd = "fail_when_tight" /\ c.eps_psd < 10)),
        severity |-> "FAIL"],
       [key |-> "SK_no_uv_reinject",
        pass |-> c.dom.uv = "ok",
        severity |-> "NO-EVAL"] >>

\* Determine verdict.  Priority: any failing lock with severity NO-EVAL ->
\* NO-EVAL(first such lock); otherwise first failing lock -> FAIL(lock).
DetermineVerdict(lks) ==
    LET noeval == SelectSeq(lks, LAMBDA v : ~v.pass /\ v.severity = "NO-EVAL")
        failed == SelectSeq(lks, LAMBDA v : ~v.pass /\ v.severity # "NO-EVAL")
    IN IF Len(noeval) > 0 THEN "NO-EVAL(" \o noeval[1].key \o ")"
       ELSE IF Len(failed) > 0 THEN "FAIL(" \o failed[1].key \o ")"
       ELSE "PASS"

\* run_once(cfg2) = run_case(cfg2, do_meta=False)["verdict"]: the nested
\* evaluation starts no sweep of its own.
run_once(c) == DetermineVerdict(DomainLocks(c))

\* (mutation of run_once: the nested run_case is asked to sweep as well)
NestedRunSweeping(by, factor, c) ==
    [by |-> by, factor |-> factor, n_omega |-> c.n_omega, n_time |-> c.n_time,
     eps_psd |-> c.eps_psd, do_meta |-> TRUE]

\* run_once(cfg2): the nested evaluation run_case(cfg2, do_meta=False)
NestedRun(by, factor, c) ==
    [by |-> by, factor |-> factor, n_omega |-> c.n_omega, n_time |-> c.n_time,
     eps_psd |-> c.eps_psd, do_meta |-> FALSE]

\* (mutation of DowngradePolicy: a flip of the tolerance sweep is not read)
DowngradeIgnoresPcdFlip(v, n, d) ==
    LET unstable == n.flip \/ Len(n.skipped) > 0
        inconclusive == ~n.pass \/ ~d.pass
    IN IF StartsWith(v, "NO-EVAL") THEN v
       ELSE IF unstable THEN "NO-EVAL(unstable_under_PCN_or_PCD)"
       ELSE IF v = "PASS" /\ inconclusive THEN "NO-EVAL(insufficient_PCN_or_PCD_coverage)"
       ELSE v

\* (mutation of DowngradePolicy: a skipped refinement counts as missing
\* coverage, not as instability)
DowngradeSkipIsCoverage(v, n, d) ==
    LET unstable == n.flip \/ d.flip
        inconclusive == ~n.pass \/ ~d.pass
    IN IF StartsWith(v, "NO-EVAL") THEN v
       ELSE IF unstable THEN "NO-EVAL(unstable_under_PCN_or_PCD)"
       ELSE IF v = "PASS" /\ inconclusive THEN "NO-EVAL(insufficient_PCN_or_PCD_coverage)"
       ELSE v

\* Meta stability sweeps (PCN/PCD) can downgrade to NO-EVAL
DowngradePolicy(v, n, d) ==
    LET unstable == n.flip \/ Len(n.skipped) > 0 \/ d.flip
        inconclusive == ~n.pass \/ ~d.pass
    IN IF StartsWith(v, "NO-EVAL") THEN v
       ELSE IF unstable THEN "NO-EVAL(unstable_under_PCN_or_PCD)"
       ELSE IF v = "PASS" /\ inconclusive THEN "NO-EVAL(insufficient_PCN_or_PCD_coverage)"
       ELSE v

\* Configurations: grid sample counts (omega, time), the tolerance eps_psd
\* (in units where the declared one is 10), the refinement list and the
\* behaviour of the domain checks.
Grids == { <<5, 5>>, <<2500, 2500>>, <<5000, 5000>>, <<5000, 6000>> }
RefValues == {1, 2, 4}
RefLists == UNION { [1..n -> RefValues] : n \in 0..MaxRefs }
DomainModes ==
    { [causal |-> a, psd |-> b, uv |-> c] :
        a \in {"ok", "fail", "fail_when_refined"},
        b \in {"ok", "fail", "fail_when_refined", "fail_when_tight"},
        c \in {"ok", "noeval"} }
Configs ==
    { [n_omega |-> g[1], n_time |-> g[2], eps_psd |-> 10, refinements |-> r, dom |-> m] :
        g \in Grids, r \in RefLists, m \in DomainModes }

\* (mutation of PcnFactors: only the listed factors are evaluated)
PcnFactorsListed(c) == c.refinements

\* for r in [1] + list(refinements)
PcnFactors(c) == <<1>> \o c.refinements

NoSweep == [pass |-> FALSE, flip |-> FALSE, runs |-> <<>>, skipped |-> <<>>, done |-> FALSE]
NoPcnLoc == [base_verdict |-> "", runs |-> <<>>, flip |-> FALSE, skipped |-> <<>>]
NoPcdLoc == [base |-> "", eps_list |-> <<>>]

(***************************************************************************)
(* occ/judges/pipeline.py                                                  *)
(***************************************************************************)
\* JudgeResult(judge, verdict, code, ...): what the built-in judges return.
\* details: the string-valued entries of the details mapping, as (key, value).
JudgeResult(judge, v, code, details) ==
    [judge |-> judge, verdict |-> v, code |-> code, details |-> details]

JudgeOutcomes ==
    { JudgeResult("domain", "NO-EVAL(DOM1)", "DOM1", {}),
      JudgeResult("domain", "FAIL(DOM4)", "DOM4", {}),
      JudgeResult("domain", "PASS(DOM)", "DOM", {}),
      JudgeResult("nuclear_guard", "NO-EVAL(NUC1)", "NUC1", {}),
      JudgeResult("nuclear_guard", "FAIL(NUC3)", "NUC3", {}),
      JudgeResult("nuclear_guard", "PASS(NUC0)", "NUC0", {}),
      JudgeResult("uv_guard", "NO-EVAL(UV1)", "UV1", {}),
      JudgeResult("uv_guard", "FAIL(UV4)", "UV4", {}),
      JudgeResult("uv_guard", "PASS(UV)", "UV", {}),
      JudgeResult("trace", "NO-EVAL(TR1)", "TR1", {}),
      JudgeResult("trace", "FAIL(TR3)", "TR3", {}),
      JudgeResult("trace", "PASS(TR)", "TR", {}) }

ResultLists == UNION { [1..n -> JudgeOutcomes] : n \in 0..MaxJudges }

\* for r in results: if r.verdict.startswith(prefix): return (r.verdict, r.code)
\* -- the position of the result the loop returns at, 0 when it runs out.
RECURSIVE FirstStartingWith(_, _, _)
FirstStartingWith(rs, prefix, i) ==
    IF i > Len(rs) THEN 0
    ELSE IF StartsWith(rs[i].verdict, prefix) THEN i
    ELSE FirstStartingWith(rs, prefix, i + 1)

\* (mutation of combine: one loop, the first result that is not a PASS wins)
RECURSIVE FirstNotPass(_, _)
FirstNotPass(rs, i) ==
    IF i > Len(rs) THEN 0
    ELSE IF StartsWith(rs[i].verdict, "NO-EVAL") \/ StartsWith(rs[i].verdict, "FAIL") THEN i
    ELSE FirstNotPass(rs, i + 1)

CombineSinglePass(rs) ==
    LET k == FirstNotPass(rs, 1)
    IN IF k > 0 THEN [verdict |-> rs[k].verdict, first_reason |-> rs[k].code]
       ELSE [verdict |-> "PASS", first_reason |-> ""]

\* combine(results): Priority: NO-EVAL > FAIL > PASS
combine(rs) ==
    LET ne == FirstStartingWith(rs, "NO-EVAL", 1)
        fl == FirstStartingWith(rs, "FAIL", 1)
    IN IF ne > 0 THEN [verdict |-> rs[ne].verdict, first_reason |-> rs[ne].code]
       ELSE IF fl > 0 THEN [verdict |-> rs[fl].verdict, first_reason |-> rs[fl].code]
       ELSE [verdict |-> "PASS", first_reason |-> ""]

\* run_pipeline's report: "verdict" and "first_reason" are combine's.
run_pipeline(rs) == combine(rs)

(***************************************************************************)
(* occ/judges: the built-in judges and the claim they evaluate.            *)
(* An optional value is a set: None is {}, a present value v is {v}.       *)
(***************************************************************************)
None == {}
Some(v) == {v}
Val(o) == CHOOSE v \in o : TRUE

\* str.strip() on the strings of the model: whitespace only becomes "".
Strip(s) == IF s \in {" ", "  "} THEN "" ELSE s

\* raw.strip().lower() contains one of NUCLEAR_HINTS, for the sector
\* strings of the model.
SectorsWithHint == {"nuclear", "Nuclear Physics", " Fusion reactor "}

\* claim_is_nuclear(claim)
claim_is_nuclear(c) ==
    /\ c.domain.mapping
    /\ c.domain.sector \in SectorsWithHint

\* DomainJudge.evaluate(claim)
DomainJudge(c) ==
    IF ~c.domain.mapping
    THEN JudgeResult("domain", "NO-EVAL(DOM1)", "DOM1", {})
    ELSE IF c.domain.omega_I = None
    THEN JudgeResult("domain", "NO-EVAL(DOM2)", "DOM2", {})
    ELSE IF c.domain.observables = <<>>
    THEN JudgeResult("domain", "NO-EVAL(DOM3)", "DOM3", {})
    ELSE IF c.domain.anchors = "not a list"
    THEN JudgeResult("domain", "FAIL(DOM4)", "DOM4", {})
    ELSE JudgeResult("domain", "PASS(DOM)", "DOM", {})

\* abs(predicted - observed) / sigma > z_max, for sigma > 0, in integers
ZScoreExceeds(predicted, observed, sigma, z_max) ==
    LET d == IF predicted >= observed THEN predicted - observed
             ELSE observed - predicted
    IN d > z_max * sigma

ZEquation == "z = |sigma_pred - sigma_obs| / sigma_obs_err"

\* NuclearGuardJudge.evaluate(claim)
NuclearGuardJudge(c) ==
    LET name == "nuclear_guard"
        domain == c.domain
        energy == domain.energy_range_mev
        evidence == c.evidence
        model == c.model
        z_max == IF evidence.max_sigma = None \/ Val(evidence.max_sigma) <= 0
                 THEN 3 ELSE Val(evidence.max_sigma)
        C == {<<"lock_class", "C">>}
        E == {<<"lock_class", "E">>}
    IN IF ~claim_is_nuclear(c)
       THEN JudgeResult(name, "PASS(NUC0)", "NUC0", {})
       ELSE IF ~domain.mapping
       THEN JudgeResult(name, "NO-EVAL(NUC1)", "NUC1", {})
       ELSE IF ~energy.mapping
       THEN JudgeResult(name, "NO-EVAL(NUC2)", "NUC2", C)
       ELSE IF energy.min_mev = None \/ energy.max_mev = None
       THEN JudgeResult(name, "FAIL(NUC3)", "NUC3", C)
       ELSE IF Val(energy.min_mev) < 0 \/ Val(energy.max_mev) <= Val(energy.min_mev)
       THEN JudgeResult(name, "FAIL(NUC4)", "NUC4", C)
       ELSE IF domain.isotopes = <<>>
       THEN JudgeResult(name, "NO-EVAL(NUC5)", "NUC5", C)
       ELSE IF domain.reaction_channel = None
               \/ Strip(Val(domain.reaction_channel)) = ""
       THEN JudgeResult(name, "NO-EVAL(NUC6)", "NUC6", C)
       ELSE IF domain.detectors = <<>>
       THEN JudgeResult(name, "NO-EVAL(NUC7)", "NUC7", C)
       ELSE IF ~evidence.mapping
       THEN JudgeResult(name, "NO-EVAL(NUC8E)", "NUC8E", E)
       ELSE IF evidence.observed = None \/ evidence.sigma = None
               \/ Val(evidence.sigma) <= 0
       THEN JudgeResult(name, "NO-EVAL(NUC9E)", "NUC9E", E)
       ELSE IF ~model.mapping
       THEN JudgeResult(name, "NO-EVAL(NUC10E)", "NUC10E", E)
       ELSE IF model.predicted = None
       THEN JudgeResult(name, "NO-EVAL(NUC11E)", "NUC11E", E)
       ELSE IF evidence.dataset_ref = None \/ Strip(Val(evidence.dataset_ref)) = ""
       THEN JudgeResult(name, "NO-EVAL(NUC13E)", "NUC13E", E)
       ELSE IF ~(\/ evidence.dataset_doi # None /\ Strip(Val(evidence.dataset_doi)) # ""
                 \/ evidence.source_url # None /\ Strip(Val(evidence.source_url)) # "")
       THEN JudgeResult(name, "NO-EVAL(NUC14E)", "NUC14E", E)
       ELSE IF ZScoreExceeds(Val(model.predicted), Val(evidence.observed),
                             Val(evidence.sigma), z_max)
       THEN JudgeResult(name, "FAIL(NUC12E)", "NUC12E",
                        E \cup {<<"equation", ZEquation>>})
       ELSE JudgeResult(name, "PASS(NUC)", "NUC",
                        {<<"reaction_channel", Strip(Val(domain.reaction_channel))>>,
                         <<"equation", ZEquation>>})

\* the reason the loop over params appends for entry raw ("" = not flagged)
FlagReason(raw) ==
    IF raw.affects_observables /\ raw.accessible = Some(FALSE) THEN "inaccessible_affects"
    ELSE IF raw.affects_observables /\ raw.accessible = None THEN "unknown_accessibility"
    ELSE ""

\* UVGuardJudge.evaluate(claim); every entry of the model's parameter lists
\* is a mapping.
UVGuardJudge(c) ==
    LET params == c.parameters
        unnamed == { i \in DOMAIN params.items : Strip(params.items[i].name) = "" }
        flagged == { i \in DOMAIN params.items : FlagReason(params.items[i]) # "" }
        first == CHOOSE i \in flagged : \A k \in flagged : i <= k
        code == IF FlagReason(params.items[first]) = "unknown_accessibility"
                THEN "UV2" ELSE "UV1"
    IN IF params.kind = "None"
       THEN JudgeResult("uv_guard", "PASS(UV0)", "UV0", {})
       ELSE IF params.kind # "list"
       THEN JudgeResult("uv_guard", "FAIL(UV4)", "UV4", {})
       ELSE IF unnamed # {}
       THEN JudgeResult("uv_guard", "FAIL(UV6)", "UV6", {})
       ELSE IF flagged # {}
       THEN JudgeResult("uv_guard", "NO-EVAL(" \o code \o ")", code, {})
       ELSE JudgeResult("uv_guard", "PASS(UV)", "UV", {})

\* TraceJudge(TraceConfig(strict)).evaluate(claim); sources.missing says
\* whether some declared path is absent from the repository or a directory.
TraceJudge(strict, c) ==
    LET sources == c.sources
    IN IF sources.kind = "None"
       THEN JudgeResult("trace", "PASS(TR0)", "TR0", {})
       ELSE IF sources.kind # "list"
       THEN JudgeResult("trace", "FAIL(TR3)", "TR3", {})
       ELSE IF sources.missing /\ strict
       THEN JudgeResult("trace", "NO-EVAL(TR1)", "TR1", {})
       ELSE IF sources.missing
       THEN JudgeResult("trace", "NO-EVAL(TR2)", "TR2", {})
       ELSE JudgeResult("trace", "PASS(TR)", "TR", {})

\* default_judges(strict_trace, include_nuclear): the judges, in order
default_judges(strict_trace, include_nuclear) ==
    LET judges == << [name |-> "domain", strict |-> FALSE],
                     [name |-> "uv_guard", strict |-> FALSE],
                     [name |-> "trace", strict |-> strict_trace] >>
    IN IF include_nuclear
       THEN <<judges[1]>> \o << [name |-> "nuclear_guard", strict |-> FALSE] >>
            \o SubSeq(judges, 2, 3)
       ELSE judges

\* j.evaluate(claim)
Evaluate(j, c) ==
    CASE j.name = "domain" -> DomainJudge(c)
      [] j.name = "nuclear_guard" -> NuclearGuardJudge(c)
      [] j.name = "uv_guard" -> UVGuardJudge(c)
      [] j.name = "trace" -> TraceJudge(j.strict, c)

\* results = [j.evaluate(claim) for j in judges]
EvaluateAll(c, judges) == [i \in 1..Len(judges) |-> Evaluate(judges[i], c)]

\* The claims of the model.
EnergyRanges ==
    { [mapping |-> FALSE, min_mev |-> None, max_mev |-> None],
      [mapping |-> TRUE, min_mev |-> None, max_mev |-> Some(14)],
      [mapping |-> TRUE, min_mev |-> Some(14), max_mev |-> Some(1)],
      [mapping |-> TRUE, min_mev |-> Some(1), max_mev |-> Some(14)] }

NoDomain ==
    [mapping |-> FALSE, sector |-> "", omega_I |-> None, observables |-> <<>>,
     anchors |-> "None", energy_range_mev |-> [mapping |-> FALSE, min_mev |-> None, max_mev |-> None],
     isotopes |-> <<>>, reaction_channel |-> None, detectors |-> <<>>]

Domains ==
    {NoDomain} \cup
    [mapping : {TRUE}, sector : {"nuclear", "optics"},
     omega_I : {None, Some("Fast-neutron setup")},
     observables : {<<"Differential cross section">>},
     anchors : {"None"},
     energy_range_mev : EnergyRanges,
     isotopes : {<<>>, <<"Fe-56">>},
     reaction_channel : {None, Some("(n,gamma)")},
     detectors : {<<>>, <<"TOF spectrometer">>}]

NoEvidence ==
    [mapping |-> FALSE, observed |-> None, sigma |-> None, max_sigma |-> None,
     dataset_ref |-> None, dataset_doi |-> None, source_url |-> None]

Evidences ==
    {NoEvidence} \cup
    [mapping : {TRUE}, observed : {Some(205)}, sigma : {Some(0), Some(5)},
     max_sigma : {Some(2)},
     dataset_ref : {None, Some("Sample evaluated dataset")},
     dataset_doi : {None, Some("10.0000/sample")},
     source_url : {None, Some("https://example.org/dataset")}]

Models ==
    { [mapping |-> FALSE, predicted |-> None],
      [mapping |-> TRUE, predicted |-> None],
      [mapping |-> TRUE, predicted |-> Some(211)],
      [mapping |-> TRUE, predicted |-> Some(230)] }

Param(name, accessible, affects) ==
    [name |-> name, accessible |-> accessible, affects_observables |-> affects]

ParameterLists ==
    { [kind |-> "None", items |-> <<>>],
      [kind |-> "list", items |-> <<Param("theta", Some(TRUE), TRUE)>>],
      [kind |-> "list", items |-> <<Param("theta", Some(TRUE), TRUE),
                                    Param("lambda_uv", Some(FALSE), TRUE)>>] }

SourceLists ==
    { [kind |-> "None", missing |-> FALSE],
      [kind |-> "list", missing |-> TRUE] }

Claims ==
    [domain : Domains, evidence : Evidences, model : Models,
     parameters : ParameterLists, sources : SourceLists]

NoClaim == [domain |-> NoDomain, evidence |-> NoEvidence,
            model |-> [mapping |-> FALSE, predicted |-> None],
            parameters |-> [kind |-> "None", items |-> <<>>],
            sources |-> [kind |-> "None", missing |-> FALSE]]
NoProfile == [strict_trace |-> FALSE, include_nuclear |-> FALSE, called |-> FALSE]

NoPipeOut == [verdict |-> "", first_reason |-> ""]

(***************************************************************************)
(* occ/runner.py: run_bundle and newest_report.                            *)
(* A report file is [name, mtime, verdict, fresh]; fresh says that the     *)
(* runner executed by this call of run_bundle wrote it.                    *)
(***************************************************************************)
MaxTime == 2      \* the clock when run_bundle is called; stale mtimes are 1..MaxTime

Report(name, mtime, v, fresh) ==
    [name |-> name, mtime |-> mtime, verdict |-> v, fresh |-> fresh]

NoReport == Report("", 0, "", FALSE)

\* reports.sort(key=lambda p: p.stat().st_mtime, reverse=True); reports[0]
\* -- the sort is stable and glob's order is arbitrary, so any report with
\* the largest mtime can come first.
NewestCandidates(reports) ==
    { r \in reports : \A q \in reports : q.mtime <= r.mtime }

\* newest_report(outputs_dir): the reports it may return ({NoReport} = None)
newest_report(reports) ==
    IF reports = {} THEN {NoReport} ELSE NewestCandidates(reports)

\* The runner scripts of the model: one that writes no report, one that
\* writes fresh.report.json, one that rewrites stale.report.json.
RunnerScripts == {"writes nothing", "writes fresh.report.json", "rewrites stale.report.json"}

\* The outputs directory after subprocess.run(cmd) has executed the runner
\* and the runner has written at time t.
RunnerWrites(script, reports, t) ==
    CASE script = "writes nothing" -> reports
      [] script = "writes fresh.report.json" ->
            reports \cup {Report("fresh.report.json", t, "PASS(FRESH)", TRUE)}
      [] script = "rewrites stale.report.json" ->
            { r \in reports : r.name # "stale.report.json" }
               \cup {Report("stale.report.json", t, "PASS(FRESH)", TRUE)}

\* RunResult.report_path and the report stored there:
\* (out_dir / "report.json") if (out_dir and report) else report
RunResult(report, given_out_dir) ==
    [report_path |-> IF report = NoReport THEN ""
                     ELSE IF given_out_dir THEN "out_dir/report.json"
                     ELSE "outputs/" \o report.name,
     content |-> report]

NoRunResult == [report_path |-> "", content |-> NoReport]

\* The reports a module's outputs directory can hold before the run.
StaleNames == {"stale.report.json", "older.report.json"}
StaleOutputs ==
    { rs \in SUBSET { Report(n, t, "PASS(STALE)", FALSE) : n \in StaleNames, t \in 1..MaxTime } :
        \A r, q \in rs : r.name = q.name => r = q }

\* No call of run_bundle is in progress.
BundleIdle ==
    /\ outputs = {}
    /\ runner_script = "writes nothing"
    /\ out_dir = FALSE
    /\ now = 0
    /\ rb_pc = "idle"
    /\ rb_res = NoRunResult

\* No pipeline has been given anything.
PipeIdle ==
    /\ results = <<>>
    /\ pipe_fn = "idle"
    /\ pipe_out = NoPipeOut
    /\ claim = NoClaim
    /\ profile = NoProfile

(***************************************************************************)
(* runner.py: _apply_judge_certificates.                                   *)
(***************************************************************************)
\* One entry of cfg["judge_certs"]: enabled, and the certificate load_cert
\* reads from its path.
JudgeCert(enabled, c) == [enabled |-> enabled, cert |-> c]

NotDeclared(kind) ==
    JudgeCert(FALSE, MkCert(kind, PassGate(kind), FALSE, NoHashes,
                            PADefault, IODefault, RFSDefault))

NoJudgeCerts ==
    [declared |-> FALSE, PA |-> NotDeclared("PA"), RFS |-> NotDeclared("RFS"),
     IO |-> NotDeclared("IO")]

AutoHashes(kind) ==
    [code |-> "AUTO", data |-> "AUTO", env |-> IF kind = "RFS" THEN "AUTO" ELSE ""]

\* The judge_certs sections of the model: none; a PA certificate that
\* passes; one whose bound is dominated; an IO certificate under its
\* threshold; an RFS certificate with a required field missing; an RFS
\* certificate whose pcn_sweep is a string.
JudgeCertChoices ==
    { NoJudgeCerts,
      [NoJudgeCerts EXCEPT !.declared = TRUE,
         !.PA = JudgeCert(TRUE, MkCert("PA", PassGate("PA"), FALSE, AutoHashes("PA"),
                                       PADefault, IODefault, RFSDefault))],
      [NoJudgeCerts EXCEPT !.declared = TRUE,
         !.PA = JudgeCert(TRUE, MkCert("PA", PassGate("PA"), FALSE, AutoHashes("PA"),
                    [numeric |-> TRUE, deltas |-> <<10, 20>>, kappa |-> 2, sigma |-> 5],
                    IODefault, RFSDefault))],
      [NoJudgeCerts EXCEPT !.declared = TRUE,
         !.IO = JudgeCert(TRUE, MkCert("IO", PassGate("IO"), FALSE, NoHashes, PADefault,
                    [numeric |-> TRUE, value |-> 4, tau |-> 5], RFSDefault))],
      [NoJudgeCerts EXCEPT !.declared = TRUE,
         !.RFS = JudgeCert(TRUE, MkCert("RFS", [complete |-> FALSE, cert_type |-> "RFS-CERT"],
                    FALSE, AutoHashes("RFS"), PADefault, IODefault, RFSDefault))],
      [NoJudgeCerts EXCEPT !.declared = TRUE,
         !.RFS = JudgeCert(TRUE,
                    [MkCert("RFS", PassGate("RFS"), FALSE, AutoHashes("RFS"),
                            PADefault, IODefault, RFSDefault)
                       EXCEPT !.shape.pcn_sweep = "str"])] }

NoJcOut == [PA |-> "", RFS |-> "", IO |-> "", verdict |-> ""]

\* _apply_judge_certificates(cfg, locks, diagnostic): the entry appended to
\* diagnostic.  Nothing is written to locks and nothing is returned.  An
\* exception of a validator ends the try block: the kinds after it get no
\* entry and out["verdict"] is "NO-EVAL".
_apply_judge_certificates(jc) ==
    LET repo_root == 1
        data_obj == [mixed |-> FALSE, keyIsInt |-> FALSE, val |-> 1]
        pa == validate_pa(jc.PA.cert, repo_root, data_obj)
        rfs == validate_rfs(jc.RFS.cert, repo_root, data_obj, 1)
        io == validate_io(jc.IO.cert)
        paRaised == jc.PA.enabled /\ pa.raised # ""
        rfsRaised == ~paRaised /\ jc.RFS.enabled /\ rfs.raised # ""
        ioRaised == ~paRaised /\ ~rfsRaised /\ jc.IO.enabled /\ io.raised # ""
    IN IF ~jc.declared
       THEN [PA |-> "", RFS |-> "", IO |-> "", verdict |-> "SKIP"]
       ELSE [PA |-> IF paRaised THEN ""
                    ELSE IF jc.PA.enabled THEN pa.verdict ELSE "SKIP",
             RFS |-> IF paRaised \/ rfsRaised THEN ""
                     ELSE IF jc.RFS.enabled THEN rfs.verdict ELSE "SKIP",
             IO |-> IF paRaised \/ rfsRaised \/ ioRaised THEN ""
                    ELSE IF jc.IO.enabled THEN io.verdict ELSE "SKIP",
             verdict |-> IF paRaised \/ rfsRaised \/ ioRaised THEN "NO-EVAL" ELSE ""]

\* The configurations run_case is given together with judge certificates.
CertConfigs ==
    { c \in Configs : c.refinements = <<>> /\ <<c.n_omega, c.n_time>> \in {<<5, 5>>, <<5000, 6000>>} }
    \cup { c \in Configs : c.refinements = <<2>> /\ c.n_omega = 2500
                           /\ c.dom = [causal |-> "ok", psd |-> "ok", uv |-> "ok"] }

\* No call of run_case is in progress.
SweepIdle ==
    /\ cfg = [n_omega |-> 5, n_time |-> 5, eps_psd |-> 10, refinements |-> <<>>,
              dom |-> [causal |-> "ok", psd |-> "ok", uv |-> "ok"]]
    /\ do_meta = FALSE
    /\ rc_pc = "idle"
    /\ unswept = ""
    /\ verdict = ""
    /\ idx = 0
    /\ pcn_loc = NoPcnLoc
    /\ pcn = NoSweep
    /\ pcd_loc = NoPcdLoc
    /\ pcd = NoSweep
    /\ nested = <<>>
    /\ judge_certs = NoJudgeCerts
    /\ jc_out = NoJcOut

(***************************************************************************)
(* The validators as a state machine: Init loads a certificate, each       *)
(* action is one validation of it with arguments of the caller's choice.   *)
(***************************************************************************)
NoData == [mixed |-> FALSE, keyIsInt |-> FALSE, val |-> 0]
NoCall == [made |-> FALSE, tree |-> 0, data |-> NoData, env |-> 0]
NoHist == [same |-> FALSE, dataDiffers |-> FALSE, jsonDiffers |-> FALSE,
           prevAllAuto |-> FALSE, prevFilledData |-> FALSE, prevCv |-> ""]

\* The slot asks to be filled: empty or the AUTO sentinel.
SlotIsAuto(x) == x = "" \/ StripUpper(x) = "AUTO"

\* The hash slots the kind declares.
SlotsOf(kind) ==
    IF kind = "PA" THEN {"code", "data"}
    ELSE IF kind = "RFS" THEN {"code", "data", "env"}
    ELSE {}

\* What the validation that now starts records about the one before it.
Relate(args) ==
    [same |-> call.made /\ call = args,
     dataDiffers |-> call.made /\ args.data # call.data,
     jsonDiffers |-> call.made /\
        (\/ JsonRaises(args.data) \/ JsonRaises(call.data)
         \/ json_dumps(args.data) # json_dumps(call.data)),
     prevAllAuto |-> call.made /\ \A f \in SlotsOf(cert.kind) : SlotIsAuto(pre[f]),
     prevFilledData |-> call.made /\ SlotIsAuto(pre.data) /\ cert.hashes.data # pre.data,
     prevCv |-> cv]

Record(r, args) ==
    /\ cert' = r.cert
    /\ cv' = r.verdict
    /\ exc' = r.raised
    /\ before' = cert
    /\ call' = args
    /\ pre' = cert.hashes
    /\ hist' = Relate(args)

CertIdle ==
    /\ cert = MkCert("IO", PassGate("IO"), FALSE, NoHashes, PADefault, IODefault, RFSDefault)
    /\ cv = ""
    /\ call = NoCall
    /\ pre = NoHashes
    /\ hist = NoHist
    /\ before = cert
    /\ exc = ""

InitCert ==
    /\ cert \in InitCerts
    /\ cv = ""
    /\ call = NoCall
    /\ pre = cert.hashes
    /\ hist = NoHist
    /\ before = cert
    /\ exc = ""
    /\ locks = [form |-> "none", items |-> <<>>]
    /\ certificates = <<>>
    /\ cfv_fn = ""
    /\ cfv_out = NoResult
    /\ SweepIdle
    /\ PipeIdle
    /\ BundleIdle

ValidatePA(repo_root, data_obj) ==
    /\ cert.kind = "PA"
    /\ Record(validate_pa(cert, repo_root, data_obj),
              [made |-> TRUE, tree |-> repo_root, data |-> data_obj, env |-> 0])
    /\ UNCHANGED <<combineVars, sweepVars, pipeVars, bundleVars>>

ValidateRFS(repo_root, data_obj, env) ==
    /\ cert.kind = "RFS"
    /\ Record(validate_rfs(cert, repo_root, data_obj, env),
              [made |-> TRUE, tree |-> repo_root, data |-> data_obj, env |-> env])
    /\ UNCHANGED <<combineVars, sweepVars, pipeVars, bundleVars>>

ValidateIO ==
    /\ cert.kind = "IO"
    /\ Record(validate_io(cert), [made |-> TRUE, tree |-> 0, data |-> NoData, env |-> 0])
    /\ UNCHANGED <<combineVars, sweepVars, pipeVars, bundleVars>>

NextCert ==
    \/ \E t \in Trees, d \in CtxObjects : ValidatePA(t, d)
    \/ \E t \in Trees, d \in CtxObjects, e \in Envs : ValidateRFS(t, d, e)
    \/ ValidateIO

SpecCert == InitCert /\ [][NextCert]_vars

(***************************************************************************)
(* The combiner as a state machine: the arguments are drawn by Init, one   *)
(* action per script applies its compute_final_verdict.                    *)
(***************************************************************************)
CombineIdle ==
    /\ locks = [form |-> "none", items |-> <<>>]
    /\ certificates = <<>>
    /\ cfv_fn = ""
    /\ cfv_out = NoResult

InitCombine ==
    /\ locks \in LockInputs
    /\ certificates \in CertMaps
    /\ cfv_fn = ""
    /\ cfv_out = NoResult
    /\ CertIdle
    /\ SweepIdle
    /\ PipeIdle
    /\ BundleIdle

RunG0Dm ==
    /\ cfv_fn = ""
    /\ cfv_fn' = "g0_dm"
    /\ cfv_out' = compute_final_verdict(locks, certificates)
    /\ UNCHANGED <<locks, certificates>>
    /\ UNCHANGED <<certVars, sweepVars, pipeVars, bundleVars>>

RunObsIsaac ==
    /\ cfv_fn = ""
    /\ locks.form = "dict"
    /\ cfv_fn' = "obs_isaac"
    /\ cfv_out' = compute_final_verdict_obs(locks, certificates)
    /\ UNCHANGED <<locks, certificates>>
    /\ UNCHANGED <<certVars, sweepVars, pipeVars, bundleVars>>

NextCombine == RunG0Dm \/ RunObsIsaac

SpecCombine == InitCombine /\ [][NextCombine]_vars

(***************************************************************************)
(* run_case as a state machine: Init is a call with a configuration of the *)
(* caller's choice; the actions are the steps of run_case, of pcn_sweep    *)
(* and of pcd_sweep, one loop iteration each.                              *)
(***************************************************************************)
InitSweep ==
    /\ cfg \in Configs
    /\ do_meta \in BOOLEAN
    /\ rc_pc = "start"
    /\ unswept = ""
    /\ verdict = ""
    /\ idx = 0
    /\ pcn_loc = NoPcnLoc
    /\ pcn = NoSweep
    /\ pcd_loc = NoPcdLoc
    /\ pcd = NoSweep
    /\ nested = <<>>
    /\ judge_certs = NoJudgeCerts
    /\ jc_out = NoJcOut
    /\ CombineIdle
    /\ CertIdle
    /\ PipeIdle
    /\ BundleIdle

\* run_case up to the sweeps: the domain checks and the verdict priority.
\* Without do_meta that verdict is what run_case returns.
RunCaseDetermine ==
    /\ rc_pc = "start"
    /\ unswept' = DetermineVerdict(DomainLocks(cfg))
    /\ verdict' = unswept'
    /\ rc_pc' = IF do_meta THEN "pcn" ELSE "done"
    /\ idx' = IF do_meta THEN 1 ELSE idx
    /\ UNCHANGED <<cfg, do_meta, pcn_loc, pcn, pcd_loc, pcd, nested>>
    /\ jc_out' = _apply_judge_certificates(judge_certs)
    /\ UNCHANGED judge_certs
    /\ UNCHANGED <<combineVars, certVars, pipeVars, bundleVars>>

\* pcn_sweep, one factor whose work exceeds the cap: skipped, not run.
PcnSkip ==
    /\ rc_pc = "pcn"
    /\ idx <= Len(PcnFactors(cfg))
    /\ LET r == PcnFactors(cfg)[idx]
           copy == deepcopy(cfg)
           cfg_r == RefinedCfg(copy.obj, r)
           w == _work(cfg_r)
       IN /\ w > _MAX_WORK
          /\ cfg' = CallerCfgAfterWrite(cfg, copy, cfg_r)
          /\ pcn_loc' = [pcn_loc EXCEPT
                 !.skipped = Append(@, [refinement |-> r, work |-> w])]
    /\ idx' = idx + 1
    /\ UNCHANGED <<do_meta, rc_pc, unswept, verdict, pcn, pcd_loc, pcd, nested>>
    /\ UNCHANGED <<judge_certs, jc_out>>
    /\ UNCHANGED <<combineVars, certVars, pipeVars, bundleVars>>

\* pcn_sweep, one factor within the cap: the nested evaluation runs, the
\* first verdict becomes the base and a different one sets flip.
PcnRun ==
    /\ rc_pc = "pcn"
    /\ idx <= Len(PcnFactors(cfg))
    /\ LET r == PcnFactors(cfg)[idx]
           copy == deepcopy(cfg)
           cfg_r == RefinedCfg(copy.obj, r)
           w == _work(cfg_r)
           res == run_once(cfg_r)
       IN /\ ~(w > _MAX_WORK)
          /\ cfg' = CallerCfgAfterWrite(cfg, copy, cfg_r)
          /\ nested' = Append(nested, NestedRun("pcn", r, cfg_r))
          /\ pcn_loc' = [pcn_loc EXCEPT
                 !.base_verdict = IF @ = "" THEN res ELSE @,
                 !.flip = IF pcn_loc.base_verdict # "" /\ res # pcn_loc.base_verdict
                          THEN TRUE ELSE @,
                 !.runs = Append(@, [refinement |-> r, verdict |-> res])]
    /\ idx' = idx + 1
    /\ UNCHANGED <<do_meta, rc_pc, unswept, verdict, pcn, pcd_loc, pcd>>
    /\ UNCHANGED <<judge_certs, jc_out>>
    /\ UNCHANGED <<combineVars, certVars, pipeVars, bundleVars>>

\* pcn_sweep returns; pcd_sweep starts with its base evaluation of an
\* unmodified copy of cfg, which no work cap guards.
PcnReturnPcdBase ==
    /\ rc_pc = "pcn"
    /\ idx > Len(PcnFactors(cfg))
    /\ pcn' = [pass |-> ~pcn_loc.flip /\ Len(pcn_loc.skipped) = 0,
               flip |-> pcn_loc.flip, runs |-> pcn_loc.runs,
               skipped |-> pcn_loc.skipped, done |-> TRUE]
    /\ pcd_loc' = [base |-> run_once(deepcopy(cfg).obj), eps_list |-> <<>>]
    /\ nested' = Append(nested, NestedRun("pcd_base", 10, deepcopy(cfg).obj))
    /\ rc_pc' = "pcd"
    /\ idx' = 1
    /\ UNCHANGED <<cfg, do_meta, unswept, verdict, pcn_loc, pcd>>
    /\ UNCHANGED <<judge_certs, jc_out>>
    /\ UNCHANGED <<combineVars, certVars, pipeVars, bundleVars>>

\* pcd_sweep, one tolerance factor over the cap.
PcdSkip ==
    /\ rc_pc = "pcd"
    /\ idx <= Len(PcdFactors)
    /\ LET factor == PcdFactors[idx]
           copy == deepcopy(cfg)
           cfg2 == TolerancedCfg(copy.obj, factor)
       IN /\ _work(cfg2) > _MAX_WORK
          /\ cfg' = CallerCfgAfterWrite(cfg, copy, cfg2)
          /\ pcd_loc' = [pcd_loc EXCEPT
                 !.eps_list = Append(@, [factor |-> factor, verdict |-> "SKIPPED(work_cap)"])]
    /\ idx' = idx + 1
    /\ UNCHANGED <<do_meta, rc_pc, unswept, verdict, pcn_loc, pcn, pcd, nested>>
    /\ UNCHANGED <<judge_certs, jc_out>>
    /\ UNCHANGED <<combineVars, certVars, pipeVars, bundleVars>>

\* pcd_sweep, one tolerance factor within the cap.
PcdRun ==
    /\ rc_pc = "pcd"
    /\ idx <= Len(PcdFactors)
    /\ LET factor == PcdFactors[idx]
           copy == deepcopy(cfg)
           cfg2 == TolerancedCfg(copy.obj, factor)
       IN /\ ~(_work(cfg2) > _MAX_WORK)
          /\ cfg' = CallerCfgAfterWrite(cfg, copy, cfg2)
          /\ nested' = Append(nested, NestedRun("pcd", factor, cfg2))
          /\ pcd_loc' = [pcd_loc EXCEPT
                 !.eps_list = Append(@, [factor |-> factor, verdict |-> run_once(cfg2)])]
    /\ idx' = idx + 1
    /\ UNCHANGED <<do_meta, rc_pc, unswept, verdict, pcn_loc, pcn, pcd>>
    /\ UNCHANGED <<judge_certs, jc_out>>
    /\ UNCHANGED <<combineVars, certVars, pipeVars, bundleVars>>

\* pcd_sweep returns and run_case applies the downgrade policy.
PcdReturnDowngrade ==
    /\ rc_pc = "pcd"
    /\ idx > Len(PcdFactors)
    /\ LET flip == \E i \in 1..Len(pcd_loc.eps_list) :
                       pcd_loc.eps_list[i].verdict \notin {pcd_loc.base, "SKIPPED(work_cap)"}
           allrun == \A i \in 1..Len(pcd_loc.eps_list) :
                       pcd_loc.eps_list[i].verdict # "SKIPPED(work_cap)"
       IN /\ pcd' = [pass |-> ~flip /\ allrun, flip |-> flip,
                     runs |-> pcd_loc.eps_list, skipped |-> <<>>, done |-> TRUE]
          /\ verdict' = DowngradePolicy(verdict, pcn, pcd')
    /\ rc_pc' = "done"
    /\ UNCHANGED <<cfg, do_meta, unswept, idx, pcn_loc, pcn, pcd_loc, nested>>
    /\ UNCHANGED <<judge_certs, jc_out>>
    /\ UNCHANGED <<combineVars, certVars, pipeVars, bundleVars>>

NextSweep ==
    \/ RunCaseDetermine
    \/ PcnSkip
    \/ PcnRun
    \/ PcnReturnPcdBase
    \/ PcdSkip
    \/ PcdRun
    \/ PcdReturnDowngrade

SpecSweep == InitSweep /\ [][NextSweep]_vars

\* run_case on a configuration that declares judge certificates.
InitRunCaseCerts ==
    /\ cfg \in CertConfigs
    /\ judge_certs \in JudgeCertChoices
    /\ jc_out = NoJcOut
    /\ do_meta \in BOOLEAN
    /\ rc_pc = "start"
    /\ unswept = ""
    /\ verdict = ""
    /\ idx = 0
    /\ pcn_loc = NoPcnLoc
    /\ pcn = NoSweep
    /\ pcd_loc = NoPcdLoc
    /\ pcd = NoSweep
    /\ nested = <<>>
    /\ CombineIdle
    /\ CertIdle
    /\ PipeIdle
    /\ BundleIdle

SpecRunCaseCerts == InitRunCaseCerts /\ [][NextSweep]_vars

\* run_case is sequential code without suspension points: a step that can
\* be taken is taken.
SpecSweepFair == SpecSweep /\ WF_vars(NextSweep)

(***************************************************************************)
(* The judge pipeline as a state machine: Init holds the judges' results,  *)
(* an action is a call of combine or of run_pipeline on them.              *)
(***************************************************************************)
InitPipeline ==
    /\ results \in ResultLists
    /\ pipe_fn = ""
    /\ pipe_out = NoPipeOut
    /\ claim = NoClaim
    /\ profile = NoProfile
    /\ CombineIdle
    /\ CertIdle
    /\ SweepIdle
    /\ BundleIdle

CallCombine ==
    /\ pipe_fn = ""
    /\ pipe_fn' = "combine"
    /\ pipe_out' = combine(results)
    /\ UNCHANGED <<results, claim, profile>>
    /\ UNCHANGED <<combineVars, certVars, sweepVars, bundleVars>>

CallRunPipeline ==
    /\ pipe_fn = ""
    /\ pipe_fn' = "run_pipeline"
    /\ pipe_out' = run_pipeline(results)
    /\ UNCHANGED <<results, claim, profile>>
    /\ UNCHANGED <<combineVars, certVars, sweepVars, bundleVars>>

NextPipeline == CallCombine \/ CallRunPipeline

SpecPipeline == InitPipeline /\ [][NextPipeline]_vars

(***************************************************************************)
(* run_pipeline on a claim: Init holds the claim, the action builds the    *)
(* judge list with default_judges and runs the pipeline on the claim.      *)
(***************************************************************************)
InitJudges ==
    /\ claim \in Claims
    /\ profile = NoProfile
    /\ results = <<>>
    /\ pipe_fn = ""
    /\ pipe_out = NoPipeOut
    /\ CombineIdle
    /\ CertIdle
    /\ SweepIdle
    /\ BundleIdle

RunPipelineOnClaim ==
    /\ pipe_fn = ""
    /\ \E strict_trace \in BOOLEAN, include_nuclear \in BOOLEAN :
          LET rs == EvaluateAll(claim, default_judges(strict_trace, include_nuclear))
          IN /\ profile' = [strict_trace |-> strict_trace,
                            include_nuclear |-> include_nuclear, called |-> TRUE]
             /\ results' = rs
             /\ pipe_out' = run_pipeline(rs)
    /\ pipe_fn' = "run_pipeline"
    /\ UNCHANGED claim
    /\ UNCHANGED <<combineVars, certVars, sweepVars, bundleVars>>

NextJudges == RunPipelineOnClaim

SpecJudges == InitJudges /\ [][NextJudges]_vars

(***************************************************************************)
(* run_bundle as a state machine: Init holds the outputs directory as the  *)
(* call finds it; the action is the call, the runner it executes included. *)
(***************************************************************************)
InitBundle ==
    /\ outputs \in StaleOutputs
    /\ runner_script \in RunnerScripts
    /\ out_dir \in BOOLEAN
    /\ now = MaxTime
    /\ rb_pc = "start"
    /\ rb_res = NoRunResult
    /\ CombineIdle
    /\ CertIdle
    /\ SweepIdle
    /\ PipeIdle

\* run_bundle(bundle_yaml, module, out_dir): the runner writes within the
\* clock tick of the call or the next one.
RunBundle ==
    /\ rb_pc = "start"
    /\ \E t \in now..(now + 1) :
          LET after == RunnerWrites(runner_script, outputs, t)
          IN /\ outputs' = after
             /\ now' = t
             /\ \E report \in newest_report(after) :
                   rb_res' = RunResult(report, out_dir)
    /\ rb_pc' = "done"
    /\ UNCHANGED <<runner_script, out_dir>>
    /\ UNCHANGED <<combineVars, certVars, sweepVars, pipeVars>>

NextBundle == RunBundle

SpecBundle == InitBundle /\ [][NextBundle]_vars

(***************************************************************************)
(* Properties of the combiner.                                             *)
(***************************************************************************)
\* The class of a verdict tag: what precedes the parenthesised code.
VerdictClass(v) ==
    IF StartsWith(v, "NO-EVAL") THEN "NO-EVAL"
    ELSE IF StartsWith(v, "FAIL") THEN "FAIL"
    ELSE IF StartsWith(v, "PASS") THEN "PASS"
    ELSE "OTHER"

CertIs(i, cls) ==
    /\ certificates[i].val.isdict
    /\ certificates[i].val.hasverdict
    /\ VerdictClass(certificates[i].val.verdict) = cls

CertFailed(i) == CertIs(i, "NO-EVAL") \/ CertIs(i, "FAIL")

\* A lock of the map whose pass is false (a missing 'pass' reads as false).
LockFailed(i) ==
    /\ locks.items[i].val.isdict
    /\ ~(locks.items[i].val.haspass /\ locks.items[i].val.pass)

LockTagNoEval(i) ==
    /\ locks.items[i].val.hasverdict
    /\ VerdictClass(locks.items[i].val.verdict) = "NO-EVAL"

CertIdx == 1..Len(certificates)
LockIdx == 1..Len(locks.items)

\* C1: for every map of certificate verdicts and every ordered lock map the
\* verdict of compute_final_verdict has the highest-priority class present:
\* NO-EVAL if any certificate is NO-EVAL or any failed lock is tagged NO-EVAL,
\* otherwise FAIL if any certificate is FAIL or any lock failed, otherwise PASS.
C1_PriorityTotality ==
    (cfv_fn = "g0_dm" /\ locks.form = "dict") =>
        LET anyNoEval == \/ \E i \in CertIdx : CertIs(i, "NO-EVAL")
                         \/ \E i \in LockIdx : LockFailed(i) /\ LockTagNoEval(i)
            anyFail == \/ \E i \in CertIdx : CertIs(i, "FAIL")
                       \/ \E i \in LockIdx : LockFailed(i)
        IN VerdictClass(cfv_out.verdict) =
               IF anyNoEval THEN "NO-EVAL" ELSE IF anyFail THEN "FAIL" ELSE "PASS"

\* C8: if at least one certificate is NO-EVAL the result is NO-EVAL and its
\* first_reason names a NO-EVAL certificate, even when a FAIL certificate
\* comes earlier in the iteration order.
C8_NoEvalCertWins ==
    (cfv_fn = "g0_dm" /\ \E i \in CertIdx : CertIs(i, "NO-EVAL")) =>
        /\ VerdictClass(cfv_out.verdict) = "NO-EVAL"
        /\ \E i \in CertIdx :
              CertIs(i, "NO-EVAL") /\ cfv_out.first_reason = "CERTS_" \o certificates[i].key

\* C9: when no certificate is NO-EVAL or FAIL, the result is the outcome of
\* the first lock of the map, in declared order, whose pass is false:
\* NO-EVAL(id) if its verdict tag starts with NO-EVAL, otherwise FAIL(id),
\* with first_reason = id; later locks never change it.
C9_FirstFailingLock ==
    (/\ cfv_fn # ""
     /\ locks.form = "dict"
     /\ \A i \in CertIdx : ~CertFailed(i)
     /\ \E i \in LockIdx : LockFailed(i)) =>
        \E i \in LockIdx :
            /\ LockFailed(i)
            /\ \A j \in 1..(i - 1) : ~LockFailed(j)
            /\ cfv_out.first_reason = locks.items[i].key
            /\ cfv_out.verdict =
                  IF LockTagNoEval(i)
                  THEN "NO-EVAL(" \o locks.items[i].key \o ")"
                  ELSE "FAIL(" \o locks.items[i].key \o ")"

\* The example of the claim: L1 passes, L2 fails with tag FAIL(L2), no
\* certificates, and the call has returned ('FAIL(L2)', 'L2').
C9_Witness ==
    /\ cfv_fn = "g0_dm"
    /\ certificates = <<>>
    /\ locks.form = "dict"
    /\ Len(locks.items) = 2
    /\ locks.items[1].val = LockRec("", "", TRUE, TRUE, TRUE, "PASS")
    /\ locks.items[2].val = LockRec("", "", TRUE, FALSE, TRUE, "FAIL(L2)")
    /\ cfv_out = [verdict |-> "FAIL(L2)", first_reason |-> "L2"]

\* C10: if any certificate is NO-EVAL or FAIL the result is
\* <class>(CERTS_<name>) of a failed certificate whatever the locks contain,
\* and certificates that are PASS(...) or SKIP never block the lock scan: a
\* failed lock then decides.
C10_CertsGateLocks ==
    (cfv_fn = "obs_isaac") =>
        /\ (\E i \in CertIdx : CertFailed(i)) =>
              \E i \in CertIdx :
                  /\ CertFailed(i)
                  /\ cfv_out.first_reason = "CERTS_" \o certificates[i].key
                  /\ cfv_out.verdict =
                        VerdictClass(certificates[i].val.verdict)
                            \o "(CERTS_" \o certificates[i].key \o ")"
        /\ ((\A i \in CertIdx : ~CertFailed(i)) /\ (\E i \in LockIdx : LockFailed(i))) =>
              /\ VerdictClass(cfv_out.verdict) \in {"NO-EVAL", "FAIL"}
              /\ \E i \in LockIdx : LockFailed(i) /\ cfv_out.first_reason = locks.items[i].key

\* A FAIL certificate in front of a failing NO-EVAL lock, and a PASS
\* certificate in front of a failing lock, both combined.
C10_Witness ==
    /\ cfv_fn = "obs_isaac"
    /\ Len(certificates) = 2
    /\ CertIs(1, "PASS")
    /\ CertIs(2, "FAIL")
    /\ \E i \in LockIdx : LockFailed(i) /\ LockTagNoEval(i)
    /\ cfv_out = [verdict |-> "FAIL(CERTS_IO)", first_reason |-> "CERTS_IO"]

(***************************************************************************)
(* Properties of the certificate validators.                               *)
(***************************************************************************)
Kind5 == "NO-EVAL(" \o cert.kind \o "5)"

\* C2: validating a PA or RFS certificate whose hash slots are AUTO or empty
\* and then validating the filled certificate again with the same source
\* tree, context object and environment returns the same verdict both
\* times, and the second validation leaves every hash slot as the first one
\* filled it.
C2_AutoFillThenVerify ==
    (cert.kind \in {"PA", "RFS"} /\ hist.same /\ hist.prevAllAuto) =>
        /\ cv = hist.prevCv
        /\ cert.hashes = pre

\* A second validation with the same arguments, of a certificate whose
\* slots the first one filled from AUTO, has returned PASS.
C2_Witness ==
    /\ cert.kind \in {"PA", "RFS"}
    /\ hist.same
    /\ hist.prevAllAuto
    /\ \A f \in SlotsOf(cert.kind) : StartsWith(cert.hashes[f], "sha256:h[")
    /\ cv = "PASS(" \o cert.kind \o ")"

\* C3 (as claimed): after a validation has filled the data hash slot, the
\* next validation with a context object that differs from the one used
\* for the fill returns NO-EVAL(<kind>5).
C3_AnyDifferentContext ==
    (hist.prevFilledData /\ hist.dataDiffers) => cv = Kind5

\* C3 (amended): after a validation has filled the data hash slot, the next
\* validation with a context object whose canonical JSON text differs from
\* that of the one used for the fill (or that cannot be serialised)
\* returns NO-EVAL(<kind>5), whatever the semantic fields say.
C3_DifferentCanonicalContext ==
    (hist.prevFilledData /\ hist.jsonDiffers) => cv = Kind5

\* The data slot was filled by the previous validation, the context object
\* then changed its value, and a certificate whose semantic fields would
\* pass has got NO-EVAL(<kind>5).
C3_Witness ==
    /\ hist.prevFilledData
    /\ hist.jsonDiffers
    /\ ~JsonRaises(call.data)
    /\ hist.prevCv = "PASS(" \o cert.kind \o ")"
    /\ cv = Kind5

(***************************************************************************)
(* Properties of run_case with its stability sweeps.                       *)
(***************************************************************************)
SweptDone == rc_pc = "done" /\ do_meta

C6_Grid(n, r) == IF n * r < 10 THEN 10 ELSE n * r
C6_OverCap(r) == 2 * C6_Grid(cfg.n_time, r) * C6_Grid(cfg.n_omega, r) > 50000000
C6_Factors == <<1>> \o cfg.refinements
C6_PcnNested == SelectSeq(nested, LAMBDA e : e.by = "pcn")

\* C6: once pcn_sweep has returned, the factors whose work exceeds the cap
\* are exactly those recorded in skipped, in order, and no nested evaluation
\* was made for them; the factors within the cap are exactly those recorded
\* in runs, and each of them was evaluated on its refined grids.
C6_WorkCapSkips ==
    pcn.done =>
        /\ [i \in 1..Len(pcn.skipped) |-> pcn.skipped[i].refinement]
             = SelectSeq(C6_Factors, C6_OverCap)
        /\ [i \in 1..Len(pcn.runs) |-> pcn.runs[i].refinement]
             = SelectSeq(C6_Factors, LAMBDA r : ~C6_OverCap(r))
        /\ [i \in 1..Len(C6_PcnNested) |-> C6_PcnNested[i].factor]
             = SelectSeq(C6_Factors, LAMBDA r : ~C6_OverCap(r))
        /\ \A i \in 1..Len(C6_PcnNested) :
             /\ C6_PcnNested[i].n_omega = C6_Grid(cfg.n_omega, C6_PcnNested[i].factor)
             /\ C6_PcnNested[i].n_time = C6_Grid(cfg.n_time, C6_PcnNested[i].factor)
             /\ ~C6_PcnNested[i].do_meta

\* A sweep that both ran a factor and skipped one, the cap reached exactly
\* by a factor that ran.
C6_Witness ==
    /\ pcn.done
    /\ Len(pcn.skipped) > 0
    /\ \E i \in 1..Len(pcn.runs) :
         2 * C6_Grid(cfg.n_time, pcn.runs[i].refinement)
           * C6_Grid(cfg.n_omega, pcn.runs[i].refinement) = 50000000

\* The case of C7: a PASS before the sweeps, refinements [1, 2, 4] of which
\* 4 exceeds the work cap and 2 does not, and no evaluation that ran changed
\* the verdict.
C7_Case ==
    /\ SweptDone
    /\ unswept = "PASS"
    /\ cfg.refinements = <<1, 2, 4>>
    /\ C6_OverCap(4)
    /\ ~C6_OverCap(2)
    /\ ~pcn.flip
    /\ ~pcd.flip

Kind1 == "NO-EVAL(" \o cert.kind \o "1)"

\* The certificate the last validation received lacks a required field or
\* carries the cert_type of another kind.
GateFailed ==
    /\ call.made
    /\ (~before.complete \/ before.cert_type # before.kind \o "-CERT")

\* The certificate the last validation received passes the required-field
\* and cert_type checks.
GatePassed ==
    /\ call.made
    /\ before.complete
    /\ before.cert_type = before.kind \o "-CERT"

\* C11: when a required field is absent or cert_type is not the kind's, the
\* validator returns NO-EVAL(<kind>1) and the certificate is left exactly as
\* it was given: no hash slot filled, no run_log stamp, no field inserted.
C11_GateLeavesCertUntouched ==
    GateFailed => (cv = Kind1 /\ exc = "" /\ cert = before)

\* A PA certificate with a required field absent and AUTO hash slots was
\* validated: NO-EVAL(PA1), slots still AUTO, run_log not stamped.
C11_Witness ==
    /\ call.made
    /\ cert.kind = "PA"
    /\ ~before.complete
    /\ cv = "NO-EVAL(PA1)"
    /\ cert.hashes.code = "AUTO"
    /\ ~cert.run_log_stamped
    /\ cert = before

\* C12: no validation lets an exception escape, however malformed the
\* values of the required fields are (here: a string where run_log, the hash
\* slots, pcn_sweep or pcd_sweep should be a mapping); a malformed
\* certificate gets a NO-EVAL verdict.
C12_ValidatorsNeverRaise ==
    call.made =>
        /\ exc = ""
        /\ (before.shape # OkShape => VerdictClass(cv) = "NO-EVAL")

\* The hash audit of the last validation did not fail and nothing escaped.
AuditPassed == GatePassed /\ exc = "" /\ cv # Kind5

\* C13: a PA certificate that passes the gate and the hash audit gets
\* NO-EVAL(PA2) when delta, kappa or sigma is missing, empty or not a
\* number, otherwise NO-EVAL(PA3) exactly when the largest delta is at least
\* kappa * sigma (equal included), otherwise PASS(PA).
C13_PADominance ==
    (cert.kind = "PA" /\ AuditPassed) =>
        LET x == before.pa
            usable == x.numeric /\ Len(x.deltas) > 0
        IN /\ (cv = "NO-EVAL(PA2)") = ~usable
           /\ (cv = "NO-EVAL(PA3)") =
                (usable /\ \E i \in 1..Len(x.deltas) : x.deltas[i] >= x.kappa * x.sigma)
           /\ (cv = "PASS(PA)") =
                (usable /\ \A i \in 1..Len(x.deltas) : x.deltas[i] < x.kappa * x.sigma)

\* The largest delta equals kappa * sigma and the verdict is NO-EVAL(PA3).
C13_Witness ==
    /\ cert.kind = "PA"
    /\ AuditPassed
    /\ before.pa.numeric
    /\ before.pa.deltas = <<1, 2>>
    /\ before.pa.kappa * before.pa.sigma = 2
    /\ cv = "NO-EVAL(PA3)"

\* C14: an IO certificate that passes the gate gets NO-EVAL(IO1) when the
\* metric value or the threshold is missing or not a number, otherwise
\* NO-EVAL(IO3) exactly when value < threshold_tau (equal passes), otherwise
\* PASS(IO); and validate_io leaves every certificate as it received it.
C14_IOThreshold ==
    (cert.kind = "IO" /\ call.made) =>
        /\ cert = before
        /\ exc = ""
        /\ GatePassed =>
             LET x == before.io
             IN /\ (cv = "NO-EVAL(IO1)") = ~x.numeric
                /\ (cv = "NO-EVAL(IO3)") = (x.numeric /\ x.value < x.tau)
                /\ (cv = "PASS(IO)") = (x.numeric /\ x.value >= x.tau)

\* The metric value equals the threshold and the verdict is PASS(IO).
C14_Witness ==
    /\ cert.kind = "IO"
    /\ GatePassed
    /\ before.io.numeric
    /\ before.io.value = before.io.tau
    /\ cv = "PASS(IO)"
    /\ cert = before

\* C15: an RFS certificate that passes the gate and the hash audit gets
\* NO-EVAL(RFS2) when pcn_sweep is enabled and flips (whatever pcd_sweep
\* says), NO-EVAL(RFS3) when that is not so and pcd_sweep is enabled and
\* flips, and PASS(RFS) otherwise; a sweep that is not enabled never blocks.
C15_RFSSweepFlags ==
    (cert.kind = "RFS" /\ AuditPassed) =>
        LET x == before.rfs
            pcnBlocks == x.pcn_enabled /\ x.pcn_flips
            pcdBlocks == x.pcd_enabled /\ x.pcd_flips
        IN /\ (cv = "NO-EVAL(RFS2)") = pcnBlocks
           /\ (cv = "NO-EVAL(RFS3)") = (~pcnBlocks /\ pcdBlocks)
           /\ (cv = "PASS(RFS)") = (~pcnBlocks /\ ~pcdBlocks)
           /\ (~x.pcn_enabled /\ ~x.pcd_enabled) => cv = "PASS(RFS)"

\* Both sweeps report flips but neither is enabled: PASS(RFS).
C15_Witness ==
    /\ cert.kind = "RFS"
    /\ AuditPassed
    /\ ~before.rfs.pcn_enabled /\ before.rfs.pcn_flips
    /\ ~before.rfs.pcd_enabled /\ before.rfs.pcd_flips
    /\ cv = "PASS(RFS)"

(***************************************************************************)
(* More properties of run_case with its stability sweeps.                  *)
(***************************************************************************)
\* The tolerance sweep recorded a run as skipped.
PcdSkipped == \E i \in 1..Len(pcd.runs) : pcd.runs[i].verdict = "SKIPPED(work_cap)"

C17_FlipComparesClasses ==
    pcn.done =>
        LET classChange ==
                \E i, j \in 1..Len(pcn.runs) :
                    VerdictClass(pcn.runs[i].verdict) # VerdictClass(pcn.runs[j].verdict)
        IN /\ pcn.flip = classChange
           /\ pcn.pass = (Len(pcn.skipped) = 0 /\ ~classChange)

\* C18: when the work of the configuration exceeds the cap, pcd_sweep makes
\* no nested evaluation and records every tolerance run as skipped;
\* otherwise it runs the factors 0.1, 1.0, 10.0 and its flip flag says that
\* some run's verdict differs from that of the factor-1.0 run.
C18_PcdWorkCap ==
    pcd.done =>
        LET byPcd == SelectSeq(nested, LAMBDA e : e.by \in {"pcd_base", "pcd"})
        IN IF 2 * cfg.n_time * cfg.n_omega > 50000000
           THEN /\ Len(byPcd) = 0
                /\ \A i \in 1..Len(pcd.runs) : pcd.runs[i].verdict = "SKIPPED(work_cap)"
           ELSE /\ [i \in 1..Len(pcd.runs) |-> pcd.runs[i].factor] = <<1, 10, 100>>
                /\ \A i \in 1..Len(pcd.runs) : pcd.runs[i].verdict # "SKIPPED(work_cap)"
                /\ pcd.flip = (\E i \in 1..Len(pcd.runs) :
                                  pcd.runs[i].verdict # pcd.runs[2].verdict)

(***************************************************************************)
(* The hash slots over sequences of validations.                           *)
(***************************************************************************)
\* A computed digest: "sha256:" and the digest text (the placeholder
\* "sha256:..." is not one).
IsDigest(x) == StartsWith(x, "sha256:h[")

\* The slots the last validation changed.
ChangedSlots == { f \in SlotsOf(cert.kind) : cert.hashes[f] # pre[f] }

\* C19 (as claimed): in every validation of a sequence a slot that holds a
\* computed digest keeps its value, a mismatch being reported as
\* NO-EVAL(<kind>5), and only an empty slot or the AUTO sentinel (any case,
\* surrounding blanks ignored) is ever replaced.
C19_OnlyEmptyOrAutoReplaced ==
    call.made =>
        /\ \A f \in SlotsOf(cert.kind) : IsDigest(pre[f]) => cert.hashes[f] = pre[f]
        /\ \A f \in ChangedSlots : SlotIsAuto(pre[f])

\* C19 (amended): in every validation of a sequence a slot that holds a
\* computed digest keeps its value, and a digest that differs from the
\* recomputed one gives NO-EVAL(<kind>5); only an empty slot, the AUTO
\* sentinel or a placeholder that begins "sha256:..." is ever replaced, and
\* what replaces it is a computed digest.
C19_WriteOnceOrVerify ==
    call.made =>
        /\ \A f \in SlotsOf(cert.kind) : IsDigest(pre[f]) => cert.hashes[f] = pre[f]
        /\ \A f \in ChangedSlots :
             /\ SlotIsAuto(pre[f]) \/ StartsWith(pre[f], "sha256:...")
             /\ IsDigest(cert.hashes[f])
        /\ (/\ GatePassed
            /\ exc = ""
            /\ \/ (IsDigest(pre.code) /\ pre.code # _compute_code_hash(call.tree))
               \/ (/\ IsDigest(pre.data)
                   /\ ~JsonRaises(call.data)
                   /\ pre.data # _compute_data_hash(call.data)))
           => cv = Kind5

\* A validation on another source tree found the code digest an earlier
\* validation had filled: NO-EVAL(<kind>5), the digest kept.
C19_Witness ==
    /\ call.made
    /\ hist.prevAllAuto
    /\ IsDigest(pre.code)
    /\ pre.code # _compute_code_hash(call.tree)
    /\ cert.hashes.code = pre.code
    /\ cv = Kind5

(***************************************************************************)
(* Properties of the judge pipeline.                                       *)
(***************************************************************************)
PipeDone == pipe_fn \in {"combine", "run_pipeline"}

ResultIdx == 1..Len(results)
ResultIs(i, cls) == VerdictClass(results[i].verdict) = cls

\* C20: combine returns the verdict and code of the first NO-EVAL result in
\* judge order if there is one, else those of the first FAIL result, else
\* ("PASS", ""); a later NO-EVAL outranks an earlier FAIL, and the verdict
\* is PASS only if no judge returned FAIL or NO-EVAL.
C20_PipelinePriority ==
    PipeDone =>
        /\ \A i \in ResultIdx :
             (ResultIs(i, "NO-EVAL") /\ \A j \in 1..(i - 1) : ~ResultIs(j, "NO-EVAL"))
                => pipe_out = [verdict |-> results[i].verdict,
                               first_reason |-> results[i].code]
        /\ \A i \in ResultIdx :
             (/\ ResultIs(i, "FAIL")
              /\ \A j \in 1..(i - 1) : ~ResultIs(j, "FAIL")
              /\ \A j \in ResultIdx : ~ResultIs(j, "NO-EVAL"))
                => pipe_out = [verdict |-> results[i].verdict,
                               first_reason |-> results[i].code]
        /\ (\A i \in ResultIdx : ~ResultIs(i, "NO-EVAL") /\ ~ResultIs(i, "FAIL"))
                = (pipe_out = [verdict |-> "PASS", first_reason |-> ""])

\* run_pipeline on a FAIL from the first judge and a NO-EVAL from the third
\* has reported the NO-EVAL.
C20_Witness ==
    /\ pipe_fn = "run_pipeline"
    /\ Len(results) = 3
    /\ ResultIs(1, "FAIL")
    /\ ResultIs(2, "PASS")
    /\ ResultIs(3, "NO-EVAL")
    /\ pipe_out = [verdict |-> results[3].verdict, first_reason |-> results[3].code]

(***************************************************************************)
(* Claims about the nuclear profile of the judge pipeline.                 *)
(***************************************************************************)
\* run_pipeline has run on the claim with default_judges(include_nuclear=True)
NuclearProfileRan ==
    /\ pipe_fn = "run_pipeline"
    /\ profile.called
    /\ profile.include_nuclear

\* The claim is nuclear and its domain declaration satisfies the domain judge.
NuclearClaim ==
    /\ claim_is_nuclear(claim)
    /\ StartsWith(DomainJudge(claim).verdict, "PASS")

\* The Class-C locks before reaction_channel hold: a valid energy range and
\* non-empty isotopes and detectors.
EnergyIsotopesDetectorsOk ==
    /\ claim.domain.energy_range_mev.mapping
    /\ claim.domain.energy_range_mev.min_mev # None
    /\ claim.domain.energy_range_mev.max_mev # None
    /\ Val(claim.domain.energy_range_mev.min_mev) >= 0
    /\ Val(claim.domain.energy_range_mev.max_mev) > Val(claim.domain.energy_range_mev.min_mev)
    /\ claim.domain.isotopes # <<>>
    /\ claim.domain.detectors # <<>>

\* The evidence anchor, the prediction and dataset_ref are declared.
AnchorDeclared ==
    /\ claim.evidence.mapping
    /\ claim.evidence.observed # None
    /\ claim.evidence.sigma # None
    /\ Val(claim.evidence.sigma) > 0
    /\ claim.model.mapping
    /\ claim.model.predicted # None
    /\ claim.evidence.dataset_ref # None

\* C21: under the nuclear profile a nuclear claim with a valid energy range,
\* isotopes and detectors but no reaction_channel gets NO-EVAL(L4C6) from
\* run_pipeline, reported by the judge named j4_nuclear_guard with code L4C6
\* and details.legacy_code NUC6; and a nuclear claim that satisfies every
\* Class-C lock but whose evidence has neither source_url nor dataset_doi
\* gets NO-EVAL(L4E7).
C21_NuclearLockCodes ==
    (NuclearProfileRan /\ NuclearClaim /\ EnergyIsotopesDetectorsOk) =>
        /\ claim.domain.reaction_channel = None =>
             /\ pipe_out.verdict = "NO-EVAL(L4C6)"
             /\ \E i \in DOMAIN results :
                  /\ results[i].judge = "j4_nuclear_guard"
                  /\ results[i].verdict = "NO-EVAL(L4C6)"
                  /\ results[i].code = "L4C6"
                  /\ <<"legacy_code", "NUC6">> \in results[i].details
        /\ (/\ claim.domain.reaction_channel # None
            /\ AnchorDeclared
            /\ claim.evidence.source_url = None
            /\ claim.evidence.dataset_doi = None) =>
             pipe_out.verdict = "NO-EVAL(L4E7)"

(***************************************************************************)
(* Claims about run_bundle.                                                *)
(***************************************************************************)
BundleDone == rb_pc = "done"

\* C22: run_bundle returns as report_path the report written by the runner
\* it has just executed, never one that was in the outputs directory before
\* the run: the report at the returned path is the fresh one, and when the
\* run wrote no report no stale one is returned.
C22_ReturnsFreshReport ==
    BundleDone =>
        /\ rb_res.report_path # "" => rb_res.content.fresh
        /\ (\A r \in outputs : ~r.fresh) => rb_res.report_path = ""

(***************************************************************************)
(* The order of the checks of validate_pa and validate_rfs.                *)
(***************************************************************************)
\* The digest the last validation computed for a slot.
ExpectedDigest(f) ==
    CASE f = "code" -> _compute_code_hash(call.tree)
      [] f = "data" -> _compute_data_hash(call.data)
      [] f = "env" -> "sha256:" \o env_hash(call.env)

\* The certificate came with a slot that holds a value (not empty, not AUTO,
\* not the "sha256:..." placeholder) other than the digest computed for it.
HashMismatch ==
    /\ before.shape.hashes = "ok"
    /\ ~JsonRaises(call.data)
    /\ \E f \in SlotsOf(before.kind) :
          /\ ~SlotIsAuto(before.hashes[f])
          /\ ~StartsWith(before.hashes[f], "sha256:...")
          /\ before.hashes[f] # ExpectedDigest(f)

\* The certificate came with a violation of its kind's semantic rule.
SemanticViolation ==
    \/ /\ before.kind = "PA"
       /\ before.pa.numeric
       /\ \E i \in 1..Len(before.pa.deltas) :
             before.pa.deltas[i] >= before.pa.kappa * before.pa.sigma
    \/ /\ before.kind = "RFS"
       /\ before.shape.pcn_sweep = "ok" /\ before.shape.pcd_sweep = "ok"
       /\ \/ before.rfs.pcn_enabled /\ before.rfs.pcn_flips
          \/ before.rfs.pcd_enabled /\ before.rfs.pcd_flips

SemanticCodes ==
    { "NO-EVAL(" \o cert.kind \o "2)", "NO-EVAL(" \o cert.kind \o "3)" }

\* C23: validate_pa and validate_rfs check required fields and type tag,
\* then the hash audit, then the semantic rule, and the verdict they return
\* is that of the first check that fails: a missing field or wrong type tag
\* gives <kind>1 whatever else is wrong, a hash mismatch gives <kind>5 even
\* when the semantic rule is violated too, and <kind>2 / <kind>3 come back
\* only from a certificate that passed the gate without a hash mismatch.
C23_FirstFailingCheck ==
    (call.made /\ cert.kind \in {"PA", "RFS"}) =>
        /\ GateFailed => cv = Kind1
        /\ (GatePassed /\ HashMismatch /\ exc = "") => cv = Kind5
        /\ cv \in SemanticCodes => (GatePassed /\ ~HashMismatch)

\* A PA certificate with a mismatching hash slot and max(deltas) >=
\* kappa * sigma has got NO-EVAL(PA5), and validated with the tree its
\* slots were filled for it had got NO-EVAL(PA3).
C23_Witness ==
    /\ cert.kind = "PA"
    /\ GatePassed
    /\ HashMismatch
    /\ SemanticViolation
    /\ cv = "NO-EVAL(PA5)"
    /\ hist.prevCv = "NO-EVAL(PA3)"

(***************************************************************************)
(* What a validation changes in the certificate.                           *)
(***************************************************************************)
\* The slot asks to be filled: empty, AUTO or the "sha256:..." placeholder.
SlotIsFillable(x) == SlotIsAuto(x) \/ StartsWith(x, "sha256:...")

\* C24 (as claimed): the only fields of a certificate a validation modifies
\* are its hash slots, each changed from empty / AUTO to the expected
\* digest; every other field, run_log included, is after the validation
\* what it was before, for every verdict.
C24_OnlyHashSlotsChange ==
    call.made =>
        /\ [cert EXCEPT !.hashes = before.hashes] = before
        /\ \A f \in ChangedSlots :
              SlotIsAuto(pre[f]) /\ cert.hashes[f] = ExpectedDigest(f)

\* C24 (amended): a validation modifies only the hash slots, each changed
\* from empty, AUTO or the "sha256:..." placeholder to the expected digest
\* and never once it holds another value, and run_log, which validate_pa
\* stamps with validated_at_utc whenever the certificate passes the gate;
\* validate_rfs and validate_io leave run_log alone, and every other field
\* is after the validation what it was before, for every verdict.
C24_OnlyHashSlotsAndRunLogChange ==
    call.made =>
        /\ [cert EXCEPT !.hashes = before.hashes,
                        !.run_log_stamped = before.run_log_stamped] = before
        /\ \A f \in ChangedSlots :
              SlotIsFillable(pre[f]) /\ cert.hashes[f] = ExpectedDigest(f)
        /\ cert.run_log_stamped # before.run_log_stamped => cert.kind = "PA"
        /\ (cert.kind = "PA" /\ GatePassed /\ exc = "") => cert.run_log_stamped

\* validate_pa has returned NO-EVAL(PA3) for a certificate whose run_log had
\* no timestamp and whose slots were AUTO: the slots hold the digests and
\* run_log is stamped.
C24_Witness ==
    /\ call.made
    /\ cert.kind = "PA"
    /\ cv = "NO-EVAL(PA3)"
    /\ ~before.run_log_stamped
    /\ cert.run_log_stamped
    /\ before.hashes.code = "AUTO"
    /\ cert.hashes.code = ExpectedDigest("code")
    /\ cert.hashes.data = ExpectedDigest("data")

(***************************************************************************)
(* Termination and isolation of the sweeps.                                *)
(***************************************************************************)
\* The nested evaluations a sweep stage has started.
NestedBy(by) == { i \in 1..Len(nested) : nested[i].by = by }

\* Every nested evaluation runs with do_meta = False, the refinement sweep
\* has started at most 1 + len(refinements) of them, the tolerance sweep its
\* baseline and at most three more.
NestedBounded ==
    /\ \A i \in 1..Len(nested) : ~nested[i].do_meta
    /\ Cardinality(NestedBy("pcn")) <= 1 + Len(cfg.refinements)
    /\ Cardinality(NestedBy("pcd_base")) <= 1
    /\ Cardinality(NestedBy("pcd")) <= 3
    /\ ~do_meta => nested = <<>>

\* C25: run_case with sweeps always finishes; every nested evaluation runs
\* with do_meta = False, so it starts no sweep of its own, and there are at
\* most 1 + len(refinements) of them for PCN plus the baseline and three
\* tolerance runs for PCD, one after the other.
C25_SweepsTerminate == [](NestedBounded) /\ <>(rc_pc = "done")

\* run_case has finished after 1 + 3 nested evaluations of the refinement
\* sweep and 1 + 3 of the tolerance sweep.
C25_Witness ==
    /\ SweptDone
    /\ Len(cfg.refinements) = 3
    /\ Cardinality(NestedBy("pcn")) = 4
    /\ Cardinality(NestedBy("pcd_base")) = 1
    /\ Cardinality(NestedBy("pcd")) = 3
    /\ Len(nested) = 8

\* Every nested evaluation so far received the caller's configuration with
\* only its own factor applied.
NestedFromCallerCfg ==
    \A i \in 1..Len(nested) :
        LET x == nested[i]
        IN CASE x.by = "pcn" ->
                  /\ x.n_omega = ScaleN(cfg.n_omega, x.factor)
                  /\ x.n_time = ScaleN(cfg.n_time, x.factor)
                  /\ x.eps_psd = cfg.eps_psd
             [] x.by = "pcd_base" ->
                  /\ x.n_omega = cfg.n_omega
                  /\ x.n_time = cfg.n_time
                  /\ x.eps_psd = cfg.eps_psd
             [] x.by = "pcd" ->
                  /\ x.n_omega = cfg.n_omega
                  /\ x.n_time = cfg.n_time
                  /\ x.eps_psd = (cfg.eps_psd * x.factor) \div 10

\* C26: pcn_sweep and pcd_sweep never modify the caller's configuration:
\* no step of run_case changes it, and every nested run receives the
\* caller's values with its own factor alone applied, whatever the runs
\* before it were given.
C26_CallerCfgUntouched == [][cfg' = cfg]_vars /\ [](NestedFromCallerCfg)

\* After both sweeps the caller's grid counts and tolerance are what they
\* were, while nested runs received a grid refined by 4 and a tolerance
\* scaled by 10.
C26_Witness ==
    /\ SweptDone
    /\ cfg.n_omega = 5 /\ cfg.n_time = 5 /\ cfg.eps_psd = 10
    /\ \E i \in 1..Len(nested) :
          nested[i].by = "pcn" /\ nested[i].factor = 4 /\ nested[i].n_omega = 20
    /\ \E i \in 1..Len(nested) :
          nested[i].by = "pcd" /\ nested[i].factor = 100 /\ nested[i].eps_psd = 100

(***************************************************************************)
(* Certificates in run_case.                                               *)
(***************************************************************************)
\* A declared, enabled certificate validated to NO-EVAL in this run_case.
CertValidatedNoEval ==
    /\ rc_pc # "start"
    /\ \E k \in {"PA", "RFS", "IO"} :
          judge_certs[k].enabled /\ StartsWith(jc_out[k], "NO-EVAL")

C28_FailedAuditFillsNothing ==
    (call.made /\ cert.kind \in {"PA", "RFS"} /\ cv = Kind5 /\ HashMismatch) =>
        cert.hashes = pre

(***************************************************************************)
(* The shape of the sweeps' results.                                       *)
(***************************************************************************)
\* The entries of q at the positions in S, in order.
RECURSIVE AtPositions(_, _, _)
AtPositions(q, S, i) ==
    IF i > Len(q) THEN <<>>
    ELSE (IF i \in S THEN <<q[i]>> ELSE <<>>) \o AtPositions(q, S, i + 1)

RefinementsOf(q) == [i \in 1..Len(q) |-> q[i].refinement]

\* C29: a result of pcn_sweep has pass true exactly when flip is false and
\* skipped is empty; the factors 1, refinements... are each in exactly one
\* of runs and skipped, in list order, so len(runs) + len(skipped) =
\* 1 + len(refinements); flip says whether a run's verdict differs from the
\* first executed run's.  A result of pcd_sweep has three run entries, for
\* the factors 0.1, 1.0, 10.0 in that order, and pass true only if none is
\* skipped and none differs from the baseline.
C29_SweepResultShape ==
    /\ pcn.done =>
         LET factors == <<1>> \o cfg.refinements
         IN /\ pcn.pass = (~pcn.flip /\ pcn.skipped = <<>>)
            /\ Len(pcn.runs) + Len(pcn.skipped) = 1 + Len(cfg.refinements)
            /\ \E S \in SUBSET (1..Len(factors)) :
                  /\ RefinementsOf(pcn.runs) = AtPositions(factors, S, 1)
                  /\ RefinementsOf(pcn.skipped)
                        = AtPositions(factors, (1..Len(factors)) \ S, 1)
            /\ pcn.flip = (\E i \in 2..Len(pcn.runs) :
                              pcn.runs[i].verdict # pcn.runs[1].verdict)
    /\ pcd.done =>
         /\ Len(pcd.runs) = 3
         /\ [i \in 1..3 |-> pcd.runs[i].factor] = <<1, 10, 100>>
         /\ pcd.pass => \A i \in 1..3 :
                           /\ pcd.runs[i].verdict # "SKIPPED(work_cap)"
                           /\ pcd.runs[i].verdict = pcd_loc.base

\* A refinement sweep over 1, 2, 4 ran two factors, of which the second
\* flipped the verdict, and skipped the third; the tolerance sweep passed.
C29_Witness ==
    /\ SweptDone
    /\ cfg.refinements = <<2, 4>>
    /\ RefinementsOf(pcn.runs) = <<1, 2>>
    /\ RefinementsOf(pcn.skipped) = <<4>>
    /\ pcn.flip
    /\ ~pcn.pass
    /\ Len(pcd.runs) = 3
    /\ pcd.pass

(***************************************************************************)
(* compute_final_verdict on entries that are not well-formed locks.        *)
(***************************************************************************)
\* The entry is a record whose 'pass' is present and true.
LockPassed(i) ==
    /\ locks.items[i].val.isdict
    /\ locks.items[i].val.haspass
    /\ locks.items[i].val.pass

\* C30: compute_final_verdict returns PASS for a lock map only when every
\* entry is a record with pass = true: an entry without 'pass' counts as
\* failed (FAIL(id), or NO-EVAL(id) when its verdict tag starts with
\* NO-EVAL), and no entry, one that is not a record included, is skipped on
\* the way to PASS.
C30_FailClosedLocks ==
    (cfv_fn # "" /\ locks.form = "dict") =>
        /\ cfv_out.verdict = "PASS" => \A i \in LockIdx : LockPassed(i)
        /\ \A i \in LockIdx :
              (/\ \A c \in CertIdx : ~CertFailed(c)
               /\ \A j \in 1..(i - 1) : LockPassed(j)
               /\ locks.items[i].val.isdict
               /\ ~locks.items[i].val.haspass)
                 => cfv_out.verdict =
                       (IF LockTagNoEval(i) THEN "NO-EVAL(" ELSE "FAIL(")
                          \o locks.items[i].key \o ")"

=============================================================================
